---- MODULE Spec2Model ----
(***************************************************************************)
(* A model of dependapy: the manifest scanner (analyzer.py) and the       *)
(* manifest patcher (updater.py).                                         *)
(*                                                                         *)
(* Text is modelled as what it is: a Python str is a sequence of          *)
(* one-character strings, <<"a", ">", "=", "1">> for "a>=1".  The str     *)
(* methods and the regular expression the code uses are operators over    *)
(* such sequences, computed the way Python computes them.                 *)
(***************************************************************************)
EXTENDS Integers, Sequences, FiniteSets, TLC

(***************************************************************************)
(* Bounds of the model.                                                    *)
(***************************************************************************)
\* the number of calls of update_dependencies one behaviour makes
MaxCalls == 2
\* the number of calls of get_latest_version one behaviour makes
MaxLookups == 3
\* the number of entries of a manifest's dependencies list
MaxDeps == 2
\* the number of dependency lines of a manifest's text
MaxLines == 2
\* the number of entries of a scan result's package_updates
MaxUpdates == 2
\* the number of cycles of an end-of-life response
MaxCycles == 4
\* the number of manifests of a repository
MaxFiles == 2
\* the number of scan results update_dependencies is called with
MaxResults == 2

(***************************************************************************)
(* Python's str methods.                                                   *)
(***************************************************************************)
\* constants.py: the sentinel singleton.  It is no str: a one-element
\* sequence whose element is not a character.
SENTINEL == <<"<SENTINEL>">>

\* a variable of a call that has not been made yet
NotCalled == <<"<not called>">>

Whitespace == {" ", "\t", "\n"}

Quotes == {"\"", "'"}

\* s[i:] with i counted from 0, as Python slices
SliceFrom(s, i) == SubSeq(s, i + 1, Len(s))

\* the predicate "lit occurs in s at position p (1-based)"
OccursAt(s, p, lit) ==
    /\ p >= 1
    /\ p + Len(lit) - 1 <= Len(s)
    /\ \A k \in 1..Len(lit) : s[p + k - 1] = lit[k]

\* s.startswith(lit)
StartsWith(s, lit) == OccursAt(s, 1, lit)

\* s.endswith(lit)
EndsWith(s, lit) == OccursAt(s, Len(s) - Len(lit) + 1, lit)

\* lit in s
Contains(s, lit) == \E p \in 1..Len(s) : OccursAt(s, p, lit)

\* the least element of a non-empty set of numbers
Least(S) == CHOOSE x \in S : \A y \in S : x <= y

\* s.find(lit, p): the least position >= p where lit occurs, 0 when none
FindFrom(s, p, lit) ==
    IF \E q \in p..Len(s) : OccursAt(s, q, lit)
    THEN Least({q \in p..Len(s) : OccursAt(s, q, lit)})
    ELSE 0

\* s.split(sep): the parts between the non-overlapping occurrences of sep,
\* found left to right
RECURSIVE Split(_, _)
Split(s, sep) ==
    LET p == FindFrom(s, 1, sep)
    IN  IF p = 0 THEN <<s>>
        ELSE <<SubSeq(s, 1, p - 1)>> \o Split(SubSeq(s, p + Len(sep), Len(s)), sep)

RECURSIVE LStrip(_)
LStrip(s) ==
    IF s # <<>> /\ Head(s) \in Whitespace THEN LStrip(Tail(s)) ELSE s

RECURSIVE RStrip(_)
RStrip(s) ==
    IF s # <<>> /\ s[Len(s)] \in Whitespace THEN RStrip(SubSeq(s, 1, Len(s) - 1)) ELSE s

\* s.strip()
Strip(s) == RStrip(LStrip(s))

\* s.replace(old, new): every non-overlapping occurrence, left to right
RECURSIVE Replace(_, _, _)
Replace(s, old, new) ==
    LET p == FindFrom(s, 1, old)
    IN  IF p = 0 THEN s
        ELSE SubSeq(s, 1, p - 1) \o new
             \o Replace(SubSeq(s, p + Len(old), Len(s)), old, new)

\* sep.join(parts)
RECURSIVE Join(_, _)
Join(parts, sep) ==
    IF parts = <<>> THEN <<>>
    ELSE IF Len(parts) = 1 THEN parts[1]
    ELSE parts[1] \o sep \o Join(Tail(parts), sep)

\* the sequences over S of length lo..hi
SeqsOf(S, lo, hi) == UNION {[1..n -> S] : n \in lo..hi}

\* the set of a sequence's elements
Range(s) == {s[i] : i \in 1..Len(s)}

(***************************************************************************)
(* packaging.version.parse, for release-only versions N(.N)*.              *)
(***************************************************************************)
Digits == {"0", "1", "2", "3", "4", "5", "6", "7", "8", "9"}

DigitVal(c) ==
    CASE c = "0" -> 0 [] c = "1" -> 1 [] c = "2" -> 2 [] c = "3" -> 3
      [] c = "4" -> 4 [] c = "5" -> 5 [] c = "6" -> 6 [] c = "7" -> 7
      [] c = "8" -> 8 [] c = "9" -> 9

\* int(s) of a string of digits
RECURSIVE IntOf(_)
IntOf(s) ==
    IF s = <<>> THEN 0 ELSE 10 * IntOf(SubSeq(s, 1, Len(s) - 1)) + DigitVal(s[Len(s)])

\* whether parse(s) returns a Version (otherwise it raises InvalidVersion)
IsValidVersion(s) ==
    LET parts == Split(s, <<".">>)
    IN  \A i \in 1..Len(parts) :
            /\ parts[i] # <<>>
            /\ \A k \in 1..Len(parts[i]) : parts[i][k] \in Digits

\* Version.release: the tuple of the release segment's numbers
Release(s) ==
    LET parts == Split(s, <<".">>)
    IN  [i \in 1..Len(parts) |-> IntOf(parts[i])]

\* the comparison key of a Version: its release without the trailing zeros
RECURSIVE StripTrailingZeros(_)
StripTrailingZeros(r) ==
    IF r # <<>> /\ r[Len(r)] = 0 THEN StripTrailingZeros(SubSeq(r, 1, Len(r) - 1))
    ELSE r

\* Python's tuple comparison a < b
RECURSIVE TupleLess(_, _)
TupleLess(a, b) ==
    IF b = <<>> THEN FALSE
    ELSE IF a = <<>> THEN TRUE
    ELSE IF Head(a) # Head(b) THEN Head(a) < Head(b)
    ELSE TupleLess(Tail(a), Tail(b))

\* the rank of a character in Python's str ordering (its code point)
CharRank(c) ==
    CASE c = "." -> 46
      [] c \in Digits -> 48 + DigitVal(c)
      [] OTHER -> 0

\* Python's str comparison a < b
RECURSIVE StrLess(_, _)
StrLess(a, b) ==
    IF b = <<>> THEN FALSE
    ELSE IF a = <<>> THEN TRUE
    ELSE IF Head(a) # Head(b) THEN CharRank(Head(a)) < CharRank(Head(b))
    ELSE StrLess(Tail(a), Tail(b))

\* a bug for VersionGreater: the two version strings compared as text
VersionGreaterLexical(a, b) == StrLess(b, a)

\* parse(a) > parse(b), for valid a and b
VersionGreater(a, b) ==
    TupleLess(StripTrailingZeros(Release(b)), StripTrailingZeros(Release(a)))

(***************************************************************************)
(* analyzer.py: parse_dependency_version and get_min_python_version.       *)
(***************************************************************************)
GE == <<">", "=">>

EQ == <<"=", "=">>

\* a bug for RemoveQuotes: the wrapping quote pair is kept
RemoveQuotesKept(dependency_spec) == dependency_spec

\* "Remove quotes if present"
RemoveQuotes(dependency_spec) ==
    IF StartsWith(dependency_spec, <<"\"">>) /\ EndsWith(dependency_spec, <<"\"">>)
    THEN SubSeq(dependency_spec, 2, Len(dependency_spec) - 1)
    ELSE dependency_spec

\* parse_dependency_version(dependency_spec): <<package, version>>
parse_dependency_version(dependency_spec) ==
    LET spec == RemoveQuotes(dependency_spec)
    IN  IF Contains(spec, GE)
        THEN LET parts == Split(spec, GE) IN <<Strip(parts[1]), Strip(parts[2])>>
        ELSE IF Contains(spec, EQ)
        THEN LET parts == Split(spec, EQ) IN <<Strip(parts[1]), Strip(parts[2])>>
        ELSE <<Strip(spec), <<>>>>

\* a bug for get_min_python_version: the major number is not looked at
get_min_python_version_any_major(requires_python) ==
    IF StartsWith(requires_python, GE)
    THEN LET version_part == SliceFrom(Strip(Split(requires_python, <<",">>)[1]), 2)
             parts == Split(version_part, <<".">>)
         IN  IF Len(parts) >= 2
             THEN parts[1] \o <<".">> \o parts[2]
             ELSE SENTINEL
    ELSE SENTINEL

\* get_min_python_version(requires_python): "X.Y" or SENTINEL
get_min_python_version(requires_python) ==
    IF StartsWith(requires_python, GE)
    THEN LET version_part == SliceFrom(Strip(Split(requires_python, <<",">>)[1]), 2)
         IN  IF StartsWith(version_part, <<"3", ".">>)
             THEN LET parts == Split(version_part, <<".">>)
                  IN  IF Len(parts) >= 2
                      THEN parts[1] \o <<".">> \o parts[2]
                      ELSE SENTINEL
             ELSE SENTINEL
    ELSE SENTINEL

(***************************************************************************)
(* analyzer.py: get_latest_version and the cache _PYPI_CACHE.              *)
(*                                                                         *)
(* What the registry answers to one request: a version (status 200 with    *)
(* info.version), status 404, or a failure (requests.get raises, another   *)
(* error status, a body that is not the expected JSON).                    *)
(***************************************************************************)
Found(version) == [kind |-> "200", version |-> version]

NotFound == [kind |-> "404", version |-> <<>>]

Failure == [kind |-> "failure", version |-> <<>>]

\* _PYPI_CACHE[package_name] = value
CachePut(cache, package_name, value) == (package_name :> value) @@ cache

\* a bug for CacheHit: a cached SENTINEL is taken for a miss
CacheHitTruthy(cache, package_name) ==
    package_name \in DOMAIN cache /\ cache[package_name] # SENTINEL

\* package_name in _PYPI_CACHE
CacheHit(cache, package_name) == package_name \in DOMAIN cache

\* a bug for CacheAfterFailure: the failure is not cached
CacheAfterFailureSkipped(cache, package_name) == cache

\* the except branch: _PYPI_CACHE[package_name] = SENTINEL
CacheAfterFailure(cache, package_name) == CachePut(cache, package_name, SENTINEL)

\* get_latest_version(package_name) with the cache as it is and the answer
\* the registry gives if it is asked: what the call returns, the cache after
\* it, and whether the registry was asked
get_latest_version(cache, package_name, answer) ==
    IF CacheHit(cache, package_name)
    THEN [ret |-> cache[package_name], cache |-> cache, requested |-> FALSE]
    ELSE IF answer.kind = "404"
    THEN [ret |-> SENTINEL, cache |-> CachePut(cache, package_name, SENTINEL),
          requested |-> TRUE]
    ELSE IF answer.kind = "200"
    THEN [ret |-> answer.version,
          cache |-> CachePut(cache, package_name, answer.version),
          requested |-> TRUE]
    ELSE [ret |-> SENTINEL, cache |-> CacheAfterFailure(cache, package_name),
          requested |-> TRUE]

(***************************************************************************)
(* analyzer.py: scan_file.                                                 *)
(*                                                                         *)
(* A manifest is what tomllib.load makes of the file: it fails, or gives   *)
(* a dict with or without a [project] table, whose requires-python is a    *)
(* str ("" when the key is absent), whose dependencies is a list of str    *)
(* and whose optional-dependencies is a list of such lists.                *)
(***************************************************************************)
UpdateInfo(package_name, current_version, latest_version, file_path) ==
    [package_name |-> package_name, current_version |-> current_version,
     latest_version |-> latest_version, file_path |-> file_path]

PythonVersionUpdateInfo(current_constraint, recommended_constraint, file_path) ==
    [kind |-> "PythonVersionUpdateInfo", current_constraint |-> current_constraint,
     recommended_constraint |-> recommended_constraint, file_path |-> file_path]

\* python_update = None
NoPythonUpdate == [kind |-> "None"]

FileAnalysisResult(file_path, package_updates, python_update) ==
    [kind |-> "FileAnalysisResult", file_path |-> file_path,
     package_updates |-> package_updates, python_update |-> python_update]

\* scan_file returns SENTINEL
ReturnsSentinel == [kind |-> "SENTINEL"]

\* scan_file raises
Raises(exception) == [kind |-> "raise", exception |-> exception]

\* parse(a) < parse(b), the order min(..., key=parse) uses
VersionLess(a, b) == VersionGreater(b, a)

\* min(versions, key=lambda v: parse(v)) of a non-empty list: the first of
\* the elements with the least key
RECURSIVE MinByVersion(_)
MinByVersion(versions) ==
    IF Len(versions) = 1 THEN versions[1]
    ELSE LET rest == MinByVersion(Tail(versions))
         IN  IF VersionLess(rest, versions[1]) THEN rest ELSE versions[1]

\* "Check Python version constraint": the python_update the lines compute,
\* or the exception min() raises on an empty list
CheckPythonVersion(file_path, requires_python, latest_python_versions) ==
    IF requires_python = <<>>
    THEN [raised |-> FALSE, python_update |-> NoPythonUpdate]
    ELSE LET min_python_version == get_min_python_version(requires_python)
         IN  IF /\ min_python_version # SENTINEL
                /\ min_python_version \notin Range(latest_python_versions)
             THEN IF latest_python_versions = <<>>
                  THEN [raised |-> TRUE, python_update |-> NoPythonUpdate]
                  ELSE [raised |-> FALSE,
                        python_update |->
                            PythonVersionUpdateInfo(
                                requires_python,
                                GE \o MinByVersion(latest_python_versions),
                                file_path)]
             ELSE [raised |-> FALSE, python_update |-> NoPythonUpdate]

\* all_deps: the dependencies, then every optional group's
RECURSIVE Extend(_, _)
Extend(all_deps, groups) ==
    IF groups = <<>> THEN all_deps
    ELSE Extend(all_deps \o Head(groups), Tail(groups))

\* "Check for updates": the loop over all_deps from its i-th entry on, with
\* the package_updates, the cache and the registry's request counts so far.
\* answers[n] is what the registry answers to a request for n.  The loop
\* ends after the last entry, or at the entry whose version parse() rejects.
RECURSIVE CheckForUpdates(_, _, _, _, _, _, _)
CheckForUpdates(file_path, all_deps, i, answers, package_updates, cache, requests) ==
    IF i > Len(all_deps)
    THEN [raised |-> FALSE, package_updates |-> package_updates, cache |-> cache,
          requests |-> requests, processed |-> Len(all_deps)]
    ELSE
    LET dep == parse_dependency_version(all_deps[i])
        package_name == dep[1]
        current_version == dep[2]
    IN  IF current_version = <<>>
        THEN CheckForUpdates(file_path, all_deps, i + 1, answers, package_updates,
                             cache, requests)
        ELSE
        LET call == get_latest_version(cache, package_name, answers[package_name])
            requests2 == IF call.requested
                         THEN [requests EXCEPT ![package_name] = @ + 1]
                         ELSE requests
        IN  IF call.ret = SENTINEL
            THEN CheckForUpdates(file_path, all_deps, i + 1, answers,
                                 package_updates, call.cache, requests2)
            ELSE IF ~IsValidVersion(call.ret) \/ ~IsValidVersion(current_version)
            THEN [raised |-> TRUE, package_updates |-> package_updates,
                  cache |-> call.cache, requests |-> requests2, processed |-> i]
            ELSE IF VersionGreater(call.ret, current_version)
            THEN CheckForUpdates(
                     file_path, all_deps, i + 1, answers,
                     Append(package_updates,
                            UpdateInfo(package_name, current_version, call.ret,
                                       file_path)),
                     call.cache, requests2)
            ELSE CheckForUpdates(file_path, all_deps, i + 1, answers,
                                 package_updates, call.cache, requests2)

\* a bug for NoUpdatesNeeded: the test is dropped
NoUpdatesNeededNever(package_updates, python_update) == FALSE

\* not package_updates and not python_update
NoUpdatesNeeded(package_updates, python_update) ==
    package_updates = <<>> /\ python_update = NoPythonUpdate

\* how a call of scan_file ends: what it returns or raises (ret), its locals
\* python_update and package_updates as they are then, how many entries of
\* all_deps its loop reached, and the cache and the request counts
ScanEnd(ret, python_update, loop) ==
    [ret |-> ret, python_update |-> python_update,
     package_updates |-> loop.package_updates, processed |-> loop.processed,
     cache |-> loop.cache, requests |-> loop.requests]

\* the loop has not run
NoLoop(cache, requests) ==
    [raised |-> FALSE, package_updates |-> <<>>, cache |-> cache,
     requests |-> requests, processed |-> 0]

\* scan_file from "if not package_updates and not python_update" on
ReturnResult(file_path, python_update, loop) ==
    IF loop.raised
    THEN ScanEnd(Raises("InvalidVersion"), python_update, loop)
    ELSE IF NoUpdatesNeeded(loop.package_updates, python_update)
    THEN ScanEnd(ReturnsSentinel, python_update, loop)
    ELSE ScanEnd(FileAnalysisResult(file_path, loop.package_updates, python_update),
                 python_update, loop)

\* scan_file from "Check dependencies" on
CheckDependencies(file_path, manifest, py, answers, cache, requests) ==
    IF py.raised
    THEN ScanEnd(Raises("ValueError"), NoPythonUpdate, NoLoop(cache, requests))
    ELSE ReturnResult(
             file_path, py.python_update,
             CheckForUpdates(
                 file_path,
                 Extend(manifest.dependencies, manifest.optional_dependencies),
                 1, answers, <<>>, cache, requests))

\* scan_file(file_path, latest_python_versions) on a file whose content loads
\* as `manifest`, with the cache and the request counts as they are and the
\* registry answering answers[n] to a request for n
scan_file(file_path, manifest, latest_python_versions, answers, cache, requests) ==
    IF manifest.load # "ok"
    THEN ScanEnd(ReturnsSentinel, NoPythonUpdate, NoLoop(cache, requests))
    ELSE IF ~manifest.has_project
    THEN ScanEnd(ReturnsSentinel, NoPythonUpdate, NoLoop(cache, requests))
    ELSE CheckDependencies(
             file_path, manifest,
             CheckPythonVersion(file_path, manifest.requires_python,
                                latest_python_versions),
             answers, cache, requests)

(***************************************************************************)
(* updater.py: the pattern of a package update and re.sub.                 *)
(*                                                                         *)
(* The pattern is, in order: group 1, which is an optional quote (" or '), *)
(* the escaped package name, an optional quote, any blanks, one of >= and  *)
(* ==, any blanks; group 2, an optional quote; the escaped current         *)
(* version; group 3, an optional quote; group 4, every character up to the *)
(* end of the line.  Neither the name nor the version holds a quote or a   *)
(* blank (parse_dependency_version strips them), so at a given start the   *)
(* regex engine has one way to match: each optional quote and each run of  *)
(* blanks takes all it can, since what follows it in the pattern cannot    *)
(* start with what it would leave.                                         *)
(***************************************************************************)
\* the position after an optional quote at p
AfterQuote(content, p) ==
    IF p <= Len(content) /\ content[p] \in Quotes THEN p + 1 ELSE p

\* the position after the blanks at p
AfterBlanks(content, p) ==
    Least({q \in p..(Len(content) + 1) :
               q > Len(content) \/ content[q] \notin Whitespace})

\* the position of the first "\n" at or after p, Len(content) + 1 if none
EndOfLine(content, p) ==
    Least({q \in p..(Len(content) + 1) : q > Len(content) \/ content[q] = "\n"})

\* the position after the >= or == at p, 0 if neither is there
AfterOperator(content, p) ==
    IF OccursAt(content, p, GE) \/ OccursAt(content, p, EQ) THEN p + 2 ELSE 0

\* the position where group 2 starts in a match that starts at p, 0 if
\* group 1 does not match at p
Group2Start(content, p, package_name) ==
    IF ~OccursAt(content, AfterQuote(content, p), package_name) THEN 0
    ELSE IF AfterOperator(
                content,
                AfterBlanks(content,
                            AfterQuote(content,
                                       AfterQuote(content, p) + Len(package_name)))) = 0
    THEN 0
    ELSE AfterBlanks(
             content,
             AfterOperator(
                 content,
                 AfterBlanks(content,
                             AfterQuote(content,
                                        AfterQuote(content, p) + Len(package_name)))))

\* the match object of a match from p with group 2 starting at q: the four
\* groups and the position after the match
MatchObject(content, p, q, current_version) ==
    [group1 |-> SubSeq(content, p, q - 1),
     group2 |-> SubSeq(content, q, AfterQuote(content, q) - 1),
     group3 |-> SubSeq(content,
                       AfterQuote(content, q) + Len(current_version),
                       AfterQuote(content, AfterQuote(content, q)
                                           + Len(current_version)) - 1),
     group4 |-> SubSeq(content,
                       AfterQuote(content, AfterQuote(content, q)
                                           + Len(current_version)),
                       EndOfLine(content, AfterQuote(content, q)
                                          + Len(current_version)) - 1),
     end |-> EndOfLine(content, AfterQuote(content, q) + Len(current_version))]

\* whether the pattern matches at p
MatchesAt(content, p, package_name, current_version) ==
    /\ Group2Start(content, p, package_name) # 0
    /\ OccursAt(content,
                AfterQuote(content, Group2Start(content, p, package_name)),
                current_version)

\* a bug for get_replacement: the rest of the line is dropped
get_replacement_without_comment(match, version) ==
    match.group1 \o match.group2 \o version \o match.group3

\* get_replacement(match, version=new_version)
get_replacement(match, version) ==
    match.group1 \o match.group2 \o version \o match.group3 \o match.group4

\* the start of the leftmost match at or after p, 0 if there is none
NextMatch(content, p, package_name, current_version) ==
    IF \E q \in p..Len(content) : MatchesAt(content, q, package_name, current_version)
    THEN Least({q \in p..Len(content) :
                    MatchesAt(content, q, package_name, current_version)})
    ELSE 0

\* re.sub from position p on, the leftmost match starting at `start`: what
\* is before the match, the match's replacement, and re.sub from the end of
\* the match on
RECURSIVE ReSub(_, _, _, _, _)
ReSubMatch(content, p, start, package_name, current_version, new_version) ==
    IF start = 0 THEN SubSeq(content, p, Len(content))
    ELSE SubSeq(content, p, start - 1)
         \o get_replacement(
                MatchObject(content, start,
                            Group2Start(content, start, package_name),
                            current_version),
                new_version)
         \o ReSub(content,
                  EndOfLine(content,
                            AfterQuote(content,
                                       Group2Start(content, start, package_name))
                            + Len(current_version)),
                  package_name, current_version, new_version)

\* re.sub(pattern, get_replacement, content) from position p on
ReSub(content, p, package_name, current_version, new_version) ==
    ReSubMatch(content, p, NextMatch(content, p, package_name, current_version),
               package_name, current_version, new_version)

(***************************************************************************)
(* updater.py: update_dependencies.                                        *)
(***************************************************************************)
\* a bug for UpdateResult: the path is not the scan result's
UpdateResultOtherPath(file_path, modified) ==
    [file_path |-> "pyproject.toml", modified |-> modified]

UpdateResult(file_path, modified) == [file_path |-> file_path, modified |-> modified]

\* 'requires-python = "'
RequiresPythonAssignment ==
    <<"r", "e", "q", "u", "i", "r", "e", "s", "-", "p", "y", "t", "h", "o", "n",
      " ", "=", " ", "\"">>

\* "Update Python version requirement if needed"
UpdatePythonRequirement(content, python_update) ==
    IF python_update = NoPythonUpdate THEN content
    ELSE Replace(content,
                 RequiresPythonAssignment \o python_update.current_constraint
                     \o <<"\"">>,
                 RequiresPythonAssignment \o python_update.recommended_constraint
                     \o <<"\"">>)

\* a bug for UpdatePackageVersions: the entries of package_updates are
\* applied from the last to the first
RECURSIVE UpdatePackageVersionsReversed(_, _, _)
UpdatePackageVersionsReversed(content, package_updates, i) ==
    IF i > Len(package_updates) THEN content
    ELSE ReSub(UpdatePackageVersionsReversed(content, package_updates, i + 1), 1,
               package_updates[i].package_name,
               package_updates[i].current_version,
               package_updates[i].latest_version)

\* "Update package versions": the loop over package_updates from its i-th
\* entry on
RECURSIVE UpdatePackageVersions(_, _, _)
UpdatePackageVersions(content, package_updates, i) ==
    IF i > Len(package_updates) THEN content
    ELSE UpdatePackageVersions(
             ReSub(content, 1, package_updates[i].package_name,
                   package_updates[i].current_version,
                   package_updates[i].latest_version),
             package_updates, i + 1)

\* the content the loop body has made of a file's content when it reaches
\* "Write back the file"
UpdatedContent(content, result) ==
    UpdatePackageVersions(UpdatePythonRequirement(content, result.python_update),
                          result.package_updates, 1)

\* a bug for Modified: the flag is set whatever the scan result holds
ModifiedAlways(result) == TRUE

\* the flag `modified` when the loop body reaches "Write back the file"
Modified(result) ==
    result.python_update # NoPythonUpdate \/ Len(result.package_updates) > 0

\* what can go wrong with the files a call touches: open("r") raises for
\* the unreadable ones, open("w") raises for the unwritable ones, and for
\* the torn ones f.write raises after open("w") has emptied the file
NoFaults == [unreadable |-> {}, unwritable |-> {}, torn |-> {}]

\* a bug for UpdateOne: a failed write leaves modified as it is
UpdateOneWriteFailureIgnored(files, result, faults, update_results, written) ==
    [files |-> IF Modified(result) /\ result.file_path \in faults.torn
               THEN [files EXCEPT ![result.file_path] = <<>>]
               ELSE IF Modified(result) /\ result.file_path \notin faults.unwritable
               THEN [files EXCEPT ![result.file_path] =
                         UpdatedContent(files[result.file_path], result)]
               ELSE files,
     written |-> IF Modified(result) /\ result.file_path \notin faults.unwritable
                 THEN Append(written, result.file_path)
                 ELSE written,
     update_results |-> Append(update_results,
                               UpdateResult(result.file_path, Modified(result)))]

\* the body of "for result in analysis_results" for a readable file: the
\* files, the results and the paths written so far, after it
UpdateOne(files, result, faults, update_results, written) ==
    IF ~Modified(result)
    THEN [files |-> files, written |-> written,
          update_results |-> Append(update_results,
                                    UpdateResult(result.file_path, FALSE))]
    ELSE IF result.file_path \in faults.unwritable
    THEN [files |-> files, written |-> written,
          update_results |-> Append(update_results,
                                    UpdateResult(result.file_path, FALSE))]
    ELSE IF result.file_path \in faults.torn
    THEN [files |-> [files EXCEPT ![result.file_path] = <<>>],
          written |-> Append(written, result.file_path),
          update_results |-> Append(update_results,
                                    UpdateResult(result.file_path, FALSE))]
    ELSE [files |-> [files EXCEPT ![result.file_path] =
                         UpdatedContent(files[result.file_path], result)],
          written |-> Append(written, result.file_path),
          update_results |-> Append(update_results,
                                    UpdateResult(result.file_path, TRUE))]

\* the loop "for result in analysis_results" from its i-th entry on
RECURSIVE UpdateAll(_, _, _, _, _, _)
UpdateAllAfter(step, analysis_results, i, faults) ==
    UpdateAll(step.files, analysis_results, i + 1, faults, step.update_results,
              step.written)

UpdateAll(files, analysis_results, i, faults, update_results, written) ==
    IF i > Len(analysis_results)
    THEN [kind |-> "list", update_results |-> update_results, files |-> files,
          written |-> written]
    ELSE IF \/ analysis_results[i].file_path \notin DOMAIN files
            \/ analysis_results[i].file_path \in faults.unreadable
    THEN UpdateAll(files, analysis_results, i + 1, faults,
                   Append(update_results,
                          UpdateResult(analysis_results[i].file_path, FALSE)),
                   written)
    ELSE UpdateAllAfter(
             UpdateOne(files, analysis_results[i], faults, update_results, written),
             analysis_results, i, faults)

\* update_dependencies(analysis_results) on the files as they are: what it
\* returns (SENTINEL, or the list update_results), the files after the call
\* and the paths it wrote, in order
update_dependencies(files, analysis_results, faults) ==
    IF analysis_results = <<>>
    THEN [kind |-> "SENTINEL", update_results |-> <<>>, files |-> files,
          written |-> <<>>]
    ELSE UpdateAll(files, analysis_results, 1, faults, <<>>, <<>>)

(***************************************************************************)
(* analyzer.py: get_latest_python_versions.                                *)
(*                                                                         *)
(* What the end-of-life registry answers: a list of cycles (status 200     *)
(* with a JSON list, each entry with a "cycle" string), or a failure:      *)
(* requests.get raises, raise_for_status raises, the body is not JSON, or  *)
(* an entry has no "cycle".                                                *)
(***************************************************************************)
NUM_LATEST_PYTHON_VERSIONS == 3

\* the hard-coded versions returned when the call fails
FallbackVersions ==
    << <<"3", ".", "1", "2">>, <<"3", ".", "1", "1">>, <<"3", ".", "1", "0">> >>

Cycles(cycles) == [kind |-> "ok", cycles |-> cycles]

EolFailure(exception) == [kind |-> "error", exception |-> exception, cycles |-> <<>>]

\* the function returns the list
Returns(versions) == [kind |-> "return", versions |-> versions]

\* v["cycle"].startswith("3.")
IsPython3(cycle) == StartsWith(cycle, <<"3", ".">>)

\* py3_versions before it is sorted
Py3Versions(cycles) == SelectSeq(cycles, IsPython3)

\* a bug for SortsBefore: the cycles compared as text
SortsBeforeLexical(a, b) == StrLess(b, a)

\* the order of sort(key=lambda x: parse(x), reverse=True): a goes before b
SortsBefore(a, b) == VersionGreater(a, b)

\* x put into a list in descending order, after the entries that do not
\* sort after it (the sort is stable)
RECURSIVE InsertDescending(_, _)
InsertDescending(x, sorted) ==
    IF sorted = <<>> THEN <<x>>
    ELSE IF SortsBefore(x, Head(sorted)) THEN <<x>> \o sorted
    ELSE <<Head(sorted)>> \o InsertDescending(x, Tail(sorted))

\* py3_versions.sort(key=lambda x: parse(x), reverse=True)
RECURSIVE SortDescending(_)
SortDescending(versions) ==
    IF versions = <<>> THEN <<>>
    ELSE InsertDescending(versions[Len(versions)],
                          SortDescending(SubSeq(versions, 1, Len(versions) - 1)))

\* py3_versions[:NUM_LATEST_PYTHON_VERSIONS]
FirstN(versions, n) ==
    IF Len(versions) <= n THEN versions ELSE SubSeq(versions, 1, n)

\* a bug for OnEolFailure: the exception is let through
OnEolFailureRaise(exception) == Raises(exception)

\* except Exception: return ["3.12", "3.11", "3.10"]
OnEolFailure(exception) == Returns(FallbackVersions)

\* get_latest_python_versions() when the registry answers `response`
get_latest_python_versions(response) ==
    IF response.kind # "ok" THEN OnEolFailure(response.exception)
    ELSE IF \E i \in 1..Len(Py3Versions(response.cycles)) :
                ~IsValidVersion(Py3Versions(response.cycles)[i])
    THEN OnEolFailure("InvalidVersion")
    ELSE Returns(FirstN(SortDescending(Py3Versions(response.cycles)),
                        NUM_LATEST_PYTHON_VERSIONS))

(***************************************************************************)
(* analyzer.py: scan_repository.                                           *)
(*                                                                         *)
(* The repository is the list of its pyproject.toml files in the order     *)
(* glob yields them, each as the manifest it loads as; the i-th is at      *)
(* RepoPath(i).                                                            *)
(***************************************************************************)
RepoPaths ==
    <<"a/pyproject.toml", "b/pyproject.toml", "c/pyproject.toml",
      "d/pyproject.toml">>

RepoPath(i) == RepoPaths[i]

\* a bug for IsResult: SENTINEL is taken for a result
IsResultAlways(result) == TRUE

\* "if result is not SENTINEL"
IsResult(result) == result # ReturnsSentinel

\* the loop "for file_path in pyproject_files" from its i-th file on, with the
\* results so far; scans is what each call of scan_file returned or raised.
\* The loop ends after the last file, or at the file whose scan raises.
RECURSIVE ScanFiles(_, _, _, _, _, _, _, _)
ScanFilesAfter(call, repository, i, versions, answers, results, scans) ==
    IF call.ret.kind = "raise"
    THEN [ret |-> call.ret, scans |-> Append(scans, call.ret),
          cache |-> call.cache, requests |-> call.requests]
    ELSE ScanFiles(repository, i + 1, versions, answers, call.cache, call.requests,
                   IF IsResult(call.ret) THEN Append(results, call.ret) ELSE results,
                   Append(scans, call.ret))

ScanFiles(repository, i, versions, answers, cache, requests, results, scans) ==
    IF i > Len(repository)
    THEN [ret |-> [kind |-> "return", results |-> results], scans |-> scans,
          cache |-> cache, requests |-> requests]
    ELSE ScanFilesAfter(
             scan_file(RepoPath(i), repository[i], versions, answers, cache, requests),
             repository, i, versions, answers, results, scans)

\* scan_repository(repo_path): what it returns or raises, what
\* get_latest_python_versions returned to it, what each scan_file returned
\* or raised, and the cache and the request counts after it
scan_repository(repository, response, answers, cache, requests) ==
    LET latest == get_latest_python_versions(response)
        loop == ScanFiles(repository, 1, latest.versions, answers, cache, requests,
                          <<>>, <<>>)
    IN  [ret |-> loop.ret, latest |-> latest, scans |-> loop.scans,
         cache |-> loop.cache, requests |-> loop.requests]

(***************************************************************************)
(* github_api.py: create_or_update_pull_request and its two backends.      *)
(*                                                                         *)
(* The environment of a call says whether find_spec finds the package      *)
(* github (installed) and whether it can be imported (importable), whether *)
(* the remote URL names an owner and a repository (repo_info), where the   *)
(* branch is ("current", "exists" or "absent"), whether the staged files   *)
(* differ from HEAD (changes), whether an open pull request from the       *)
(* branch exists (pr_exists), and which commands fail (failing).  A run of *)
(* a backend is what it returns or raises and the commands it ran.         *)
(***************************************************************************)
NoChangesToCommit == "No changes to commit"

ExistingPrUrl == "https://github.com/o/r/pull/1"

NewPrUrl == "https://github.com/o/r/pull/2"

\* the call returns the value
ReturnsValue(value) == [kind |-> "return", value |-> value]

Run(ret, log) == [ret |-> ret, log |-> log]

\* the commands of cmds run in order up to the first that fails
RECURSIVE RunAll(_, _, _)
RunAll(cmds, env, log) ==
    IF cmds = <<>> THEN [failed |-> FALSE, log |-> log]
    ELSE IF Head(cmds) \in env.failing
    THEN [failed |-> TRUE, log |-> Append(log, Head(cmds))]
    ELSE RunAll(Tail(cmds), env, Append(log, Head(cmds)))

\* setup_git_for_commit: the commands it runs.  "git rev-parse --verify"
\* fails for a branch that does not exist, and a failed "git checkout" of
\* one that exists is caught too, each followed by "git checkout -b", which
\* fails for a branch that exists
setup_git_for_commit(env, log) ==
    LET config == RunAll(<<"git config", "git config", "git rev-parse HEAD">>,
                         env, log)
    IN  IF config.failed \/ env.branch = "current" THEN config
        ELSE IF env.branch = "absent"
        THEN RunAll(<<"git checkout -b">>, env,
                    Append(config.log, "git rev-parse --verify"))
        ELSE IF "git checkout" \in env.failing
        THEN [failed |-> TRUE,
              log |-> config.log \o <<"git rev-parse --verify", "git checkout",
                                      "git checkout -b">>]
        ELSE RunAll(<<"git checkout">>, env,
                    Append(config.log, "git rev-parse --verify"))

\* both backends, from setup_git_for_commit to the push: "raise", "nothing"
\* (no changes to commit) or "pushed"
CommitAndPush(env, log) ==
    LET staged == IF setup_git_for_commit(env, log).failed
                  THEN setup_git_for_commit(env, log)
                  ELSE RunAll(<<"git add", "git status">>, env,
                              setup_git_for_commit(env, log).log)
    IN  IF staged.failed THEN [end |-> "raise", log |-> staged.log]
        ELSE IF ~env.changes THEN [end |-> "nothing", log |-> staged.log]
        ELSE LET pushed == RunAll(<<"git commit", "git push">>, env, staged.log)
             IN  [end |-> IF pushed.failed THEN "raise" ELSE "pushed",
                  log |-> pushed.log]

\* a bug for PyGithubPullRequest: a pull request is created although an
\* open one from the branch exists
PyGithubPullRequestAlwaysCreates(env, log) ==
    IF "github api" \in env.failing
    THEN Run(Raises("GithubException"), Append(log, "get_pulls"))
    ELSE Run(ReturnsValue(NewPrUrl), log \o <<"get_pulls", "create_pull">>)

\* create_pr_with_pygithub from "Create or update PR" on
PyGithubPullRequest(env, log) ==
    IF "github api" \in env.failing
    THEN Run(Raises("GithubException"), Append(log, "get_pulls"))
    ELSE IF env.pr_exists
    THEN Run(ReturnsValue(ExistingPrUrl), Append(log, "get_pulls"))
    ELSE Run(ReturnsValue(NewPrUrl), log \o <<"get_pulls", "create_pull">>)

create_pr_with_pygithub(env) ==
    IF ~env.importable THEN Run(Raises("ImportError"), <<>>)
    ELSE IF ~env.repo_info THEN Run(Raises("ValueError"), <<"git config --get">>)
    ELSE LET git == CommitAndPush(env, <<"git config --get">>)
         IN  CASE git.end = "raise" -> Run(Raises("CalledProcessError"), git.log)
               [] git.end = "nothing" -> Run(ReturnsValue(NoChangesToCommit), git.log)
               [] OTHER -> PyGithubPullRequest(env, git.log)

\* create_pr_with_gh_cli from "Check if PR already exists" on: a failed
\* "gh pr list" is taken for no pull request, gh not being there is not
\* caught, and "gh pr create" fails when the pull request exists
GhPullRequest(env, log) ==
    IF "gh" \in env.failing
    THEN Run(Raises("FileNotFoundError"), Append(log, "gh pr list"))
    ELSE IF env.pr_exists /\ "gh pr list" \notin env.failing
    THEN IF "gh pr view" \in env.failing
         THEN Run(Raises("CalledProcessError"), log \o <<"gh pr list", "gh pr view">>)
         ELSE Run(ReturnsValue(ExistingPrUrl), log \o <<"gh pr list", "gh pr view">>)
    ELSE IF env.pr_exists \/ "gh pr create" \in env.failing
    THEN Run(Raises("CalledProcessError"), log \o <<"gh pr list", "gh pr create">>)
    ELSE Run(ReturnsValue(NewPrUrl), log \o <<"gh pr list", "gh pr create">>)

create_pr_with_gh_cli(env) ==
    LET git == CommitAndPush(env, <<>>)
    IN  CASE git.end = "raise" -> Run(Raises("CalledProcessError"), git.log)
          [] git.end = "nothing" -> Run(ReturnsValue(NoChangesToCommit), git.log)
          [] OTHER -> GhPullRequest(env, git.log)

\* "Fall back to gh CLI": what the call returns or raises, the backends
\* attempted and the commands run
FallBack(run, attempted, log) ==
    [ret |-> IF run.ret.kind = "raise" THEN Raises("RuntimeError") ELSE run.ret,
     attempted |-> Append(attempted, "gh CLI"), log |-> log \o run.log]

\* "First try using PyGithub": an ImportError is caught, whatever else the
\* attempt returns or raises is the call's
AfterPyGithub(run, env) ==
    IF run.ret = Raises("ImportError")
    THEN FallBack(create_pr_with_gh_cli(env), <<"PyGithub">>, run.log)
    ELSE [ret |-> run.ret, attempted |-> <<"PyGithub">>, log |-> run.log]

create_or_update_pull_request(env) ==
    IF env.installed
    THEN AfterPyGithub(create_pr_with_pygithub(env), env)
    ELSE FallBack(create_pr_with_gh_cli(env), <<>>, <<>>)

(***************************************************************************)
(* offline_pr.py: create_git_patch.                                        *)
(*                                                                         *)
(* The environment of a call says what "git branch --show-current" prints  *)
(* (head: the name of the branch, or the empty string when HEAD is         *)
(* detached), which commands fail (failing) and with what (error), and     *)
(* whether the patch file can be opened for writing (writable).  A run is  *)
(* the commands run so far and the exception on its way, "" for none.      *)
(***************************************************************************)
PatchPath == "/abs/output.patch"

CheckoutOriginal == "git checkout <current_branch>"

\* the next statement of the try block: skipped when an exception is on its
\* way.  "git checkout" of an empty name always fails, and a file that
\* cannot be opened raises OSError
Do(run, command, env) ==
    LET fails == \/ command \in env.failing
                 \/ command = CheckoutOriginal /\ env.head = ""
        raised == IF command = "open" THEN "OSError"
                  ELSE IF command \in env.failing THEN env.error
                  ELSE "CalledProcessError"
    IN  IF run.error # "" THEN run
        ELSE [log |-> Append(run.log, command),
              error |-> IF fails THEN raised ELSE ""]

\* "Create and checkout a new branch for the changes": a CalledProcessError
\* of "git checkout -b" is caught and followed by "git checkout"
SwitchBranch(run, env) ==
    LET created == Do(run, "git checkout -b", env)
    IN  IF run.error = "" /\ created.error = "CalledProcessError"
        THEN Do([log |-> created.log, error |-> ""], "git checkout", env)
        ELSE created

\* the try block, from "Save current branch" to "Return to original branch"
PatchSteps(env) ==
    LET saved == Do([log |-> <<>>, error |-> ""], "git branch --show-current", env)
        switched == SwitchBranch(saved, env)
        added == Do(switched, "git add", env)
        committed == Do(added, "git commit", env)
        opened == IF env.writable THEN committed ELSE Do(committed, "open", env)
        patched == Do(opened, "git format-patch", env)
    IN  Do(patched, CheckoutOriginal, env)

\* both except blocks: "Try to return to the original branch if we know
\* it" (the local current_branch is set and not empty), whatever that
\* checkout does, then return SENTINEL
OnPatchFailure(run, env) ==
    LET known == /\ env.head # ""
                 /\ ~(Len(run.log) = 1 /\ run.error # "")
    IN  [ret |-> ReturnsSentinel,
         log |-> IF known THEN Append(run.log, CheckoutOriginal) ELSE run.log]

create_git_patch(env) ==
    LET run == PatchSteps(env)
    IN  IF run.error = "" THEN [ret |-> ReturnsValue(PatchPath), log |-> run.log]
        ELSE OnPatchFailure(run, env)

(***************************************************************************)
(* The state.                                                              *)
(***************************************************************************)
VARIABLES
    \* one call of parse_dependency_version: its argument, what the argument
    \* was built from, and what the call returned
    dependency_spec, declared, parsed,
    \* one call of get_min_python_version: its argument and what it returned
    constraint, min_version,
    \* the module's dict _PYPI_CACHE: package name -> version or SENTINEL
    PYPI_CACHE,
    \* how many requests the registry got for each package name
    registry_requests,
    \* the calls of get_latest_version so far: their number, what the first
    \* call for each package name returned, the last call (its argument and
    \* what it returned) and the answer the registry had for the last call
    lookups, first_returned, last_lookup, registry_answer,
    \* one call of scan_file: the manifest the file loads as, the argument
    \* latest_python_versions, what the call returned or raised, and its
    \* locals python_update and package_updates and the number of entries of
    \* all_deps its loop reached, as they are when the call ends
    pyproject, latest_python_versions, scan_ret, python_update, package_updates,
    processed,
    \* the calls of update_dependencies: the files (path -> content), how the
    \* manifest was written (its lines), the argument analysis_results, the
    \* number of calls so far, and of the last call: what it returned, the
    \* paths it wrote, and the files as they were before it; faults is what
    \* goes wrong with the files during the calls
    files, layout, analysis_results, calls, update_ret, written, files_before,
    faults,
    \* one call of get_latest_python_versions: what the end-of-life registry
    \* answers, and what the call returned or raised
    eol_response, eol_ret,
    \* one call of scan_repository: the manifests of the repository in the
    \* order they are discovered, what the call returned or raised, and what
    \* each call of scan_file it made returned or raised
    repository, repo_ret, scans,
    \* one call of create_or_update_pull_request: its environment, what it
    \* returned or raised, the backends it attempted and the commands it ran
    publish_env, publish_ret, attempted, git_log,
    \* one call of create_git_patch: its environment, what it returned, and
    \* the commands it ran
    patch_env, patch_ret, patch_log,
    \* one run of main: the parsed command line, os.environ, what
    \* scan_repository returns or raises in the run, whether the manifests
    \* differed from HEAD before the run, what main returned, the functions it
    \* called, in order, and the github_token it passed to the publisher
    args, environ, scanned, dirty, main_ret, main_calls, github_token,
    \* the pipeline scan, patch, scan on one file: what the registry answers
    \* for each package name throughout, and what the second call of
    \* scan_file returned or raised
    registry, rescan_ret

parse_vars == <<dependency_spec, declared, parsed, constraint, min_version>>

cache_vars == <<PYPI_CACHE, registry_requests>>

lookup_vars == <<lookups, first_returned, last_lookup, registry_answer>>

scan_vars == <<pyproject, latest_python_versions, scan_ret, python_update,
               package_updates, processed>>

update_vars == <<files, layout, analysis_results, calls, update_ret, written,
                 files_before, faults>>

eol_vars == <<eol_response, eol_ret>>

repo_vars == <<repository, repo_ret, scans>>

publish_vars == <<publish_env, publish_ret, attempted, git_log>>

patch_vars == <<patch_env, patch_ret, patch_log>>

main_vars == <<args, environ, scanned, dirty, main_ret, main_calls, github_token>>

pipeline_vars == <<registry, rescan_ret>>

vars == <<parse_vars, cache_vars, lookup_vars, scan_vars, update_vars,
         eol_vars, repo_vars, publish_vars, patch_vars, main_vars, pipeline_vars>>

(***************************************************************************)
(* The inputs of the parsing functions.                                    *)
(***************************************************************************)
\* package names: "rq", "x-rq" (a name that ends with another one), "np"
PackageNames == {<<"r", "q">>, <<"x", "-", "r", "q">>, <<"n", "p">>}

\* declared versions: "1.9", "1.10", "2.0.1"
DeclaredVersions == {<<"1", ".", "9">>, <<"1", ".", "1", "0">>, <<"2", ".", "0", ".", "1">>}

\* the operators a declaration is written with: >= and == (supported), and
\* ~=, <, <= (not supported)
SupportedOps == {GE, EQ}

OtherOps == {<<"~", "=">>, <<"<">>, <<"<", "=">>}

\* a declaration as it is written: an optional wrapping double-quote pair, the
\* package, optional blanks around the operator, the version, and an optional
\* second clause (",<3")
Declarations ==
    [quoted : BOOLEAN, pkg : PackageNames, space : {<<>>, <<" ">>},
     op : SupportedOps \cup OtherOps, ver : DeclaredVersions,
     clause : {<<>>, <<",", "<", "3">>}]
    \cup
    [quoted : BOOLEAN, pkg : PackageNames, space : {<<>>}, op : {<<>>},
     ver : {<<>>}, clause : {<<>>}]

\* the text of a declaration
DeclarationText(d) ==
    LET q == IF d.quoted THEN <<"\"">> ELSE <<>>
    IN  q \o d.pkg \o d.space \o d.op \o d.space \o d.ver \o d.clause \o q

\* the declarations of the form pkg+op+ver with op one of >= and ==
IsPkgOpVer(d) ==
    d.op \in SupportedOps /\ d.space = <<>> /\ d.clause = <<>>

\* a bare package name
IsBareName(d) == d.op = <<>>

\* requires-python constraints: ">=3.8", ">=3.8,<4.0", ">=3.8.0", ">=3.10",
\* "<4.0", "~=3.8", ">=4.0", ">=2.7", ">=3", ">= 3.8", ">=3.12.1,<4", ">=3.",
\* "==3.8", "3.8"
Constraints ==
    { <<">", "=", " ", "3", ".", "8">>,
      <<">", "=", "3", ".", "1", "2", ".", "1", ",", "<", "4">>,
      <<">", "=", "3", ".">>,
      <<"=", "=", "3", ".", "8">>,
      <<"3", ".", "8">> }
    \cup
    { <<">", "=", "3", ".", "8">>,
      <<">", "=", "3", ".", "8", ",", "<", "4", ".", "0">>,
      <<">", "=", "3", ".", "8", ".", "0">>,
      <<">", "=", "3", ".", "1", "0">>,
      <<"<", "4", ".", "0">>,
      <<"~", "=", "3", ".", "8">>,
      <<">", "=", "4", ".", "0">>,
      <<">", "=", "2", ".", "7">>,
      <<">", "=", "3">> }

(***************************************************************************)
(* SpecParse: the parsing functions applied to their inputs.               *)
(***************************************************************************)
\* the parsing functions are not under study
IdleParse ==
    /\ declared = NotCalled
    /\ dependency_spec = <<>>
    /\ parsed = NotCalled
    /\ constraint = <<>>
    /\ min_version = NotCalled

\* a fresh process: the cache is empty and the registry has got no request
FreshCache ==
    /\ PYPI_CACHE = <<>>
    /\ registry_requests = [n \in PackageNames |-> 0]

\* before the first call of get_latest_version
NoLookup == [package_name |-> <<>>, ret |-> NotCalled]

NoAnswer == [kind |-> "none", version |-> <<>>]

\* no call of get_latest_version has been made
IdleLookup ==
    /\ lookups = 0
    /\ first_returned = <<>>
    /\ last_lookup = NoLookup
    /\ registry_answer = NoAnswer

\* a manifest: the file loads, with or without a [project] table
Manifest(has_project, requires_python, dependencies, optional_dependencies) ==
    [load |-> "ok", has_project |-> has_project,
     requires_python |-> requires_python, dependencies |-> dependencies,
     optional_dependencies |-> optional_dependencies]

\* the file does not load (tomllib.load raises)
BrokenManifest == [Manifest(FALSE, <<>>, <<>>, <<>>) EXCEPT !.load = "error"]

\* before the call of scan_file
NotScanned == [kind |-> "not called"]

\* scan_file is not under study
IdleScan ==
    /\ pyproject = BrokenManifest
    /\ latest_python_versions = <<>>
    /\ scan_ret = NotScanned
    /\ python_update = NoPythonUpdate
    /\ package_updates = <<>>
    /\ processed = 0

\* before the first call of update_dependencies
NotUpdated == [kind |-> "not called", update_results |-> <<>>]

\* update_dependencies is not under study
IdleUpdate ==
    /\ files = <<>>
    /\ layout = <<>>
    /\ analysis_results = <<>>
    /\ calls = 0
    /\ update_ret = NotUpdated
    /\ written = <<>>
    /\ files_before = <<>>
    /\ faults = NoFaults

\* get_latest_python_versions is not under study
IdleEol ==
    /\ eol_response = EolFailure("none")
    /\ eol_ret = NotScanned

\* scan_repository is not under study
IdleRepo ==
    /\ repository = <<>>
    /\ repo_ret = NotScanned
    /\ scans = <<>>

\* the environment of a call of create_or_update_pull_request
PublishEnv(installed, importable, repo_info, branch, changes, pr_exists, failing) ==
    [installed |-> installed, importable |-> importable, repo_info |-> repo_info,
     branch |-> branch, changes |-> changes, pr_exists |-> pr_exists,
     failing |-> failing]

\* create_or_update_pull_request is not under study
IdlePublish ==
    /\ publish_env = PublishEnv(FALSE, FALSE, FALSE, "current", FALSE, FALSE, {})
    /\ publish_ret = NotScanned
    /\ attempted = <<>>
    /\ git_log = <<>>

\* the environment of a call of create_git_patch
PatchEnv(head, failing, error, writable) ==
    [head |-> head, failing |-> failing, error |-> error, writable |-> writable]

\* create_git_patch is not under study
IdlePatch ==
    /\ patch_env = PatchEnv("main", {}, "CalledProcessError", TRUE)
    /\ patch_ret = NotScanned
    /\ patch_log = <<>>

\* main is not under study
IdleMain ==
    /\ args = [no_pr |-> FALSE, offline_pr |-> FALSE, dry_run |-> FALSE,
               token |-> "<None>"]
    /\ environ = [name \in {} |-> ""]
    /\ scanned = NotScanned
    /\ dirty = FALSE
    /\ main_ret = NotScanned
    /\ main_calls = <<>>
    /\ github_token = "<not passed>"

\* the pipeline is not under study
IdlePipeline ==
    /\ registry = <<>>
    /\ rescan_ret = NotScanned

InitParse ==
    /\ IdlePipeline
    /\ IdleMain
    /\ IdlePatch
    /\ IdlePublish
    /\ IdleRepo
    /\ IdleEol
    /\ FreshCache
    /\ IdleLookup
    /\ IdleScan
    /\ IdleUpdate
    /\ declared \in Declarations
    /\ dependency_spec = DeclarationText(declared)
    /\ parsed = NotCalled
    /\ constraint \in Constraints
    /\ min_version = NotCalled

\* a call of parse_dependency_version(dependency_spec)
ParseDependencyVersion ==
    /\ UNCHANGED pipeline_vars
    /\ UNCHANGED main_vars
    /\ UNCHANGED patch_vars
    /\ UNCHANGED publish_vars
    /\ UNCHANGED repo_vars
    /\ UNCHANGED eol_vars
    /\ parsed = NotCalled
    /\ parsed' = parse_dependency_version(dependency_spec)
    /\ UNCHANGED <<dependency_spec, declared, constraint, min_version>>
    /\ UNCHANGED <<cache_vars, lookup_vars, scan_vars, update_vars>>

\* a call of get_min_python_version(constraint)
GetMinPythonVersion ==
    /\ UNCHANGED pipeline_vars
    /\ UNCHANGED main_vars
    /\ UNCHANGED patch_vars
    /\ UNCHANGED publish_vars
    /\ UNCHANGED repo_vars
    /\ UNCHANGED eol_vars
    /\ min_version = NotCalled
    /\ min_version' = get_min_python_version(constraint)
    /\ UNCHANGED <<dependency_spec, declared, parsed, constraint>>
    /\ UNCHANGED <<cache_vars, lookup_vars, scan_vars, update_vars>>

NextParse == ParseDependencyVersion \/ GetMinPythonVersion

SpecParse == InitParse /\ [][NextParse]_vars

(***************************************************************************)
(* C10.  parse_dependency_version returns (pkg, ver) for every declaration *)
(* of the form pkg+op+ver, op one of >= and ==, with or without a wrapping *)
(* double-quote pair, and (name, "") for a bare package name.              *)
(***************************************************************************)
C10_ParsePkgOpVer ==
    parsed # NotCalled =>
        /\ IsPkgOpVer(declared) => parsed = <<declared.pkg, declared.ver>>
        /\ IsBareName(declared) => parsed = <<declared.pkg, <<>>>>

\* a quoted pkg==ver declaration has been parsed
C10_Witness ==
    /\ parsed # NotCalled
    /\ IsPkgOpVer(declared)
    /\ declared.quoted
    /\ declared.op = EQ
    /\ parsed[2] = declared.ver

(***************************************************************************)
(* C12.  get_min_python_version returns "X.Y" for every constraint that    *)
(* starts with >= followed by X.Y, whatever comes after (.Z, further       *)
(* clauses) and whatever the major number X, and SENTINEL for every other  *)
(* constraint.                                                             *)
(***************************************************************************)
\* the characters of s before the first one of stops
UpTo(s, stops) ==
    LET at == {p \in 1..Len(s) : s[p] \in stops}
    IN  IF at = {} THEN s ELSE SubSeq(s, 1, Least(at) - 1)

AllDigits(s) == s # <<>> /\ \A p \in 1..Len(s) : s[p] \in Digits

\* "X.Y" if the text is >= followed by X.Y with X one of majors, else SENTINEL
MinorVersionOf(text, majors) ==
    IF ~StartsWith(text, GE) THEN SENTINEL
    ELSE LET rest == SubSeq(text, 3, Len(text))
             major == UpTo(rest, {".", ","})
             after == SubSeq(rest, Len(major) + 2, Len(rest))
             minor == UpTo(after, {".", ","})
         IN  IF /\ major \in majors
                /\ Len(rest) > Len(major)
                /\ rest[Len(major) + 1] = "."
                /\ AllDigits(minor)
             THEN major \o <<".">> \o minor
             ELSE SENTINEL

MajorNumbers == {<<"2">>, <<"3">>, <<"4">>}

RegistryVersions == {<<"1", ".", "9">>, <<"1", ".", "1", "0">>}

RegistryAnswers == {Found(v) : v \in RegistryVersions} \cup {NotFound, Failure}

InitCache ==
    /\ IdlePipeline
    /\ IdleMain
    /\ IdlePatch
    /\ IdlePublish
    /\ IdleRepo
    /\ IdleEol
    /\ IdleParse
    /\ IdleScan
    /\ IdleUpdate
    /\ FreshCache
    /\ IdleLookup

\* a call of get_latest_version(package_name) while the registry's answer for
\* that name is `answer`
GetLatestVersion(package_name, answer) ==
    /\ UNCHANGED pipeline_vars
    /\ UNCHANGED main_vars
    /\ UNCHANGED patch_vars
    /\ UNCHANGED publish_vars
    /\ UNCHANGED repo_vars
    /\ UNCHANGED eol_vars
    /\ LET call == get_latest_version(PYPI_CACHE, package_name, answer)
       IN  /\ lookups < MaxLookups
           /\ lookups' = lookups + 1
           /\ PYPI_CACHE' = call.cache
           /\ registry_requests' =
                  IF call.requested
                  THEN [registry_requests EXCEPT ![package_name] = @ + 1]
                  ELSE registry_requests
           /\ first_returned' =
                  IF package_name \in DOMAIN first_returned
                  THEN first_returned
                  ELSE (package_name :> call.ret) @@ first_returned
           /\ last_lookup' = [package_name |-> package_name, ret |-> call.ret]
           /\ registry_answer' = answer
           /\ UNCHANGED <<parse_vars, scan_vars, update_vars>>

NextCache ==
    \E package_name \in PackageNames, answer \in RegistryAnswers :
        GetLatestVersion(package_name, answer)

SpecCache == InitCache /\ [][NextCache]_vars

(***************************************************************************)
(* C5.  Within one process the registry is asked at most once for each     *)
(* package name, whatever its first answer was (a version, a 404, or a     *)
(* failure).                                                               *)
(***************************************************************************)
C5_AtMostOneRequest ==
    \A n \in PackageNames : registry_requests[n] <= 1

\* a name whose first request failed has been looked up again, and the
\* registry has still got one request for it
C5_Witness ==
    /\ lookups >= 2
    /\ last_lookup # NoLookup
    /\ registry_requests[last_lookup.package_name] = 1
    /\ \A n \in PackageNames \ {last_lookup.package_name} : registry_requests[n] = 0
    /\ registry_answer = Failure
    /\ first_returned[last_lookup.package_name] = SENTINEL

(***************************************************************************)
(* C6.  Every call of get_latest_version(n) returns what the first call    *)
(* for n returned; so once a lookup of n has ended in "not found" (a 404   *)
(* or a failure), every later one does, also when the registry would now   *)
(* answer with a version.                                                  *)
(***************************************************************************)
C6_FirstAnswerSticks ==
    last_lookup # NoLookup =>
        last_lookup.ret = first_returned[last_lookup.package_name]

\* a later lookup of a name returned "not found" while the registry had a
\* version for it
C6_Witness ==
    /\ lookups >= 2
    /\ last_lookup # NoLookup
    /\ last_lookup.ret = SENTINEL
    /\ registry_answer \in {Found(v) : v \in RegistryVersions}
    /\ registry_requests[last_lookup.package_name] = 1
    /\ \A n \in PackageNames \ {last_lookup.package_name} : registry_requests[n] = 0

(***************************************************************************)
(* SpecScan: one call of scan_file on a manifest, in a fresh process, the  *)
(* registry free to answer each request as it likes.                       *)
(***************************************************************************)
PyprojectPath == "pyproject.toml"

\* the entries of dependency lists: "rq>=1.9", "rq==1.10", "np>=1.9.0",
\* "rq" (no version), "np~=1.9" (an operator that is not supported) and
\* "rq>=1.9,<3" (two clauses)
DependencyEntries ==
    { <<"r", "q", ">", "=", "1", ".", "9">>,
      <<"r", "q", "=", "=", "1", ".", "1", "0">>,
      <<"n", "p", ">", "=", "1", ".", "9", ".", "0">>,
      <<"r", "q">>,
      <<"n", "p", "~", "=", "1", ".", "9">>,
      <<"r", "q", ">", "=", "1", ".", "9", ",", "<", "3">> }

\* optional-dependencies: none, or one group ["np==1.10"]
OptionalGroups == {<<>>, << <<<<"n", "p", "=", "=", "1", ".", "1", "0">>>> >>}

\* requires-python: absent, ">=3.8", ">=3.10", "~=3.8", ">=3.13"
RequiresPython ==
    { <<>>,
      <<">", "=", "3", ".", "8">>,
      <<">", "=", "3", ".", "1", "0">>,
      <<"~", "=", "3", ".", "8">>,
      <<">", "=", "3", ".", "1", "3">> }

\* what get_latest_python_versions can return: the 3.x cycles of the
\* end-of-life registry, newest first, cut to three: ["3.12", "3.11", "3.10"]
\* (also the fallback), ["3.11", "3.10", "3.9"], and [] when the registry
\* lists no 3.x cycle
SupportedVersionLists ==
    { << <<"3", ".", "1", "2">>, <<"3", ".", "1", "1">>, <<"3", ".", "1", "0">> >>,
      << <<"3", ".", "1", "1">>, <<"3", ".", "1", "0">>, <<"3", ".", "9">> >>,
      <<>> }

Manifests ==
    { Manifest(TRUE, r, d, o) :
          r \in RequiresPython, d \in SeqsOf(DependencyEntries, 0, MaxDeps),
          o \in OptionalGroups }
    \cup {Manifest(FALSE, <<>>, <<>>, <<>>), BrokenManifest}

\* the package names whose latest version a scan of the manifest asks for
LookedUp(manifest) ==
    LET all_deps == Extend(manifest.dependencies, manifest.optional_dependencies)
    IN  {parse_dependency_version(all_deps[i])[1] : i \in 1..Len(all_deps)}
        \cap PackageNames

InitScan ==
    /\ IdlePipeline
    /\ IdleMain
    /\ IdlePatch
    /\ IdlePublish
    /\ IdleRepo
    /\ IdleEol
    /\ IdleParse
    /\ IdleUpdate
    /\ FreshCache
    /\ IdleLookup
    /\ pyproject \in Manifests
    /\ latest_python_versions \in SupportedVersionLists
    /\ scan_ret = NotScanned
    /\ python_update = NoPythonUpdate
    /\ package_updates = <<>>
    /\ processed = 0

\* the call scan_file(PyprojectPath, latest_python_versions)
ScanFile(answers) ==
    /\ UNCHANGED pipeline_vars
    /\ UNCHANGED main_vars
    /\ UNCHANGED patch_vars
    /\ UNCHANGED publish_vars
    /\ UNCHANGED repo_vars
    /\ UNCHANGED eol_vars
    /\ scan_ret = NotScanned
    /\ \E call \in {scan_file(PyprojectPath, pyproject, latest_python_versions,
                               answers, PYPI_CACHE, registry_requests)} :
        /\ scan_ret' = call.ret
        /\ python_update' = call.python_update
        /\ package_updates' = call.package_updates
        /\ processed' = call.processed
        /\ PYPI_CACHE' = call.cache
        /\ registry_requests' = call.requests
        /\ UNCHANGED <<pyproject, latest_python_versions, parse_vars, lookup_vars,
                       update_vars>>

NextScan ==
    \E answers \in [LookedUp(pyproject) -> RegistryAnswers] : ScanFile(answers)

SpecScan == InitScan /\ [][NextScan]_vars

\* all_deps of the scanned manifest
ScannedDeps == Extend(pyproject.dependencies, pyproject.optional_dependencies)

(***************************************************************************)
(* C7.  scan_file returns a FileAnalysisResult only when it carries a      *)
(* package update or a language-version update; a scan that ends having    *)
(* found neither returns SENTINEL.                                         *)
(***************************************************************************)
C7_ResultCarriesAnUpdate ==
    /\ scan_ret.kind = "FileAnalysisResult" =>
           /\ scan_ret.package_updates = package_updates
           /\ scan_ret.python_update = python_update
           /\ \/ scan_ret.package_updates # <<>>
              \/ scan_ret.python_update # NoPythonUpdate
    /\ scan_ret.kind \in {"FileAnalysisResult", "SENTINEL"} =>
           (package_updates = <<>> /\ python_update = NoPythonUpdate
                => scan_ret = ReturnsSentinel)

\* a manifest with dependencies and requires-python was scanned, nothing was
\* to update, and SENTINEL came back
C7_Witness ==
    /\ scan_ret = ReturnsSentinel
    /\ pyproject.load = "ok"
    /\ pyproject.has_project
    /\ pyproject.requires_python # <<>>
    /\ processed = 2
    /\ \A i \in 1..processed : parse_dependency_version(ScannedDeps[i])[2] # <<>>
    /\ \A n \in LookedUp(pyproject) : PYPI_CACHE[n] # SENTINEL

(***************************************************************************)
(* C8.  scan_file records an UpdateInfo for a declaration exactly when the *)
(* declaration has a version, the registry returned a version for its      *)
(* package, and that version has strictly higher precedence than the       *)
(* declared one (1.10 is above 1.9); so package_updates is, in order, the  *)
(* UpdateInfo of every such declaration the loop reached.                  *)
(***************************************************************************)
\* the k-th number of a release, 0 beyond its end
Component(release, k) == IF k <= Len(release) THEN release[k] ELSE 0

\* version precedence: at the first place where the releases differ, a's
\* number is the greater
HigherPrecedence(a, b) ==
    /\ IsValidVersion(a)
    /\ IsValidVersion(b)
    /\ LET ra == Release(a)
           rb == Release(b)
           n == IF Len(ra) > Len(rb) THEN Len(ra) ELSE Len(rb)
       IN  \E k \in 1..n :
               /\ Component(ra, k) > Component(rb, k)
               /\ \A j \in 1..(k - 1) : Component(ra, j) = Component(rb, j)

\* the i-th declaration is to be updated
NeedsUpdate(i) ==
    LET dep == parse_dependency_version(ScannedDeps[i])
    IN  /\ dep[2] # <<>>
        /\ dep[1] \in DOMAIN PYPI_CACHE
        /\ PYPI_CACHE[dep[1]] # SENTINEL
        /\ HigherPrecedence(PYPI_CACHE[dep[1]], dep[2])

UpdateInfoOf(i) ==
    LET dep == parse_dependency_version(ScannedDeps[i])
    IN  UpdateInfo(dep[1], dep[2], PYPI_CACHE[dep[1]], PyprojectPath)

C8_UpdateIffNewer ==
    scan_ret # NotScanned =>
        LET reached == SelectSeq([i \in 1..processed |-> i], NeedsUpdate)
        IN  package_updates = [k \in 1..Len(reached) |-> UpdateInfoOf(reached[k])]

\* "rq>=1.9" and "rq==1.10" were scanned and the registry returned 1.10:
\* the first is recorded, the second is not
C8_Witness ==
    /\ scan_ret.kind = "FileAnalysisResult"
    /\ processed >= 2
    /\ ScannedDeps[1] = <<"r", "q", ">", "=", "1", ".", "9">>
    /\ ScannedDeps[2] = <<"r", "q", "=", "=", "1", ".", "1", "0">>
    /\ package_updates =
           <<UpdateInfo(<<"r", "q">>, <<"1", ".", "9">>, <<"1", ".", "1", "0">>,
                        PyprojectPath)>>

(***************************************************************************)
(* C9.  scan_file records a language-version update exactly when the       *)
(* manifest has a requires-python constraint whose minor version can be    *)
(* extracted and is not in the supported-versions list; the update then    *)
(* recommends ">=" + the lowest version of the list by precedence and      *)
(* keeps the manifest's constraint as current_constraint.                  *)
(***************************************************************************)
\* the manifest's minimum minor version is not a supported one
Unsupported(manifest, supported) ==
    /\ manifest.requires_python # <<>>
    /\ get_min_python_version(manifest.requires_python) # SENTINEL
    /\ get_min_python_version(manifest.requires_python) \notin Range(supported)

C9_PythonUpdateIffUnsupported ==
    (scan_ret # NotScanned /\ pyproject.load = "ok" /\ pyproject.has_project) =>
        IF Unsupported(pyproject, latest_python_versions)
        THEN \E lowest \in Range(latest_python_versions) :
                 /\ \A v \in Range(latest_python_versions) :
                        ~HigherPrecedence(lowest, v)
                 /\ python_update =
                        PythonVersionUpdateInfo(pyproject.requires_python,
                                                GE \o lowest, PyprojectPath)
        ELSE python_update = NoPythonUpdate

\* C9 for the calls that get a non-empty supported-versions list
C9_WithSupportedVersions ==
    latest_python_versions # <<>> => C9_PythonUpdateIffUnsupported

\* requires-python = ">=3.8" was scanned against ["3.11", "3.10", "3.9"] and
\* ">=3.9" is recommended
C9_Witness ==
    /\ scan_ret # NotScanned
    /\ pyproject.requires_python = <<">", "=", "3", ".", "8">>
    /\ python_update =
           PythonVersionUpdateInfo(<<">", "=", "3", ".", "8">>,
                                   <<">", "=", "3", ".", "9">>, PyprojectPath)

(***************************************************************************)
(* C29.  A language-version update never lowers the manifest's minimum:    *)
(* whenever scan_file records a python_update, the version of its          *)
(* recommended_constraint is not lower, by version precedence, than the    *)
(* minimum version extracted from its current_constraint - also when the   *)
(* manifest's minimum is newer than every supported version.  (SpecScan.)  *)
(***************************************************************************)
\* the version of a constraint ">=X.Y"
RecommendedVersion == SubSeq(python_update.recommended_constraint, 3,
                             Len(python_update.recommended_constraint))

CurrentMinimum == get_min_python_version(python_update.current_constraint)

C29_MinimumNeverLowered ==
    (scan_ret # NotScanned /\ python_update # NoPythonUpdate) =>
        ~HigherPrecedence(CurrentMinimum, RecommendedVersion)

\* C29 for the manifests whose minimum is older than a supported version
C29_OlderMinimumRaised ==
    (/\ scan_ret # NotScanned /\ python_update # NoPythonUpdate
     /\ \A v \in Range(latest_python_versions) :
            HigherPrecedence(v, CurrentMinimum))
        => HigherPrecedence(RecommendedVersion, CurrentMinimum)

(***************************************************************************)
(* C11.  A declaration of an unsupported shape (~=, <, or two clauses such *)
(* as rq>=1.9,<3) is skipped silently: it yields an empty version, no      *)
(* request to the registry and no update, and scan_file does not raise.    *)
(***************************************************************************)
\* the declaration is written with ~= or <, or with a second clause
UnsupportedShape(dep) ==
    \/ Contains(dep, <<"~", "=">>)
    \/ Contains(dep, <<"<">>)
    \/ Contains(dep, <<",">>)

\* every declaration of the package in the scanned manifest is of an
\* unsupported shape
OnlyUnsupported(n) ==
    /\ \E i \in 1..Len(ScannedDeps) : StartsWith(ScannedDeps[i], n)
    /\ \A i \in 1..Len(ScannedDeps) :
           StartsWith(ScannedDeps[i], n) => UnsupportedShape(ScannedDeps[i])

C11_UnsupportedShapesSkipped ==
    scan_ret # NotScanned =>
        /\ scan_ret # Raises("InvalidVersion")
        /\ \A i \in 1..processed :
               UnsupportedShape(ScannedDeps[i]) =>
                   parse_dependency_version(ScannedDeps[i])[2] = <<>>
        /\ \A n \in PackageNames :
               OnlyUnsupported(n) => registry_requests[n] = 0
        /\ \A k \in 1..Len(package_updates) :
               \E i \in 1..Len(ScannedDeps) :
                   /\ ~UnsupportedShape(ScannedDeps[i])
                   /\ parse_dependency_version(ScannedDeps[i]) =
                          <<package_updates[k].package_name,
                            package_updates[k].current_version>>

\* C11 for the declarations written with ~= alone, which have neither >= nor
\* == in them
C11_TildeSkipped ==
    scan_ret # NotScanned =>
        /\ \A i \in 1..processed :
               Contains(ScannedDeps[i], <<"~", "=">>) =>
                   parse_dependency_version(ScannedDeps[i])[2] = <<>>
        /\ \A n \in PackageNames :
               (/\ \E i \in 1..Len(ScannedDeps) : StartsWith(ScannedDeps[i], n)
                /\ \A i \in 1..Len(ScannedDeps) :
                       StartsWith(ScannedDeps[i], n) =>
                           Contains(ScannedDeps[i], <<"~", "=">>))
                   => registry_requests[n] = 0

(***************************************************************************)
(* SpecUpdate: calls of update_dependencies, each with the same            *)
(* analysis_results, on one manifest.                                      *)
(*                                                                         *)
(* The manifest is a [project] table with an optional requires-python line *)
(* and a dependencies array of one declaration a line.  A declaration line *)
(* is written prefix + version + trailer.                                  *)
(***************************************************************************)
DependencyLine(package_name, prefix, version, trailer) ==
    [package_name |-> package_name, prefix |-> prefix, version |-> version,
     trailer |-> trailer]

\* the lines, in the order they are written in:
\*     "rq>=1.0",  # pin
\*     'rq == 1.0',
\*     "x-rq>=1.0",
\*     "rq>=1.0.1",
DependencyLines ==
    << DependencyLine(<<"r", "q">>,
                      <<" ", " ", " ", " ", "\"", "r", "q", ">", "=">>,
                      <<"1", ".", "0">>,
                      <<"\"", ",", " ", " ", "#", " ", "p", "i", "n">>),
       DependencyLine(<<"r", "q">>,
                      <<" ", " ", " ", " ", "'", "r", "q", " ", "=", "=", " ">>,
                      <<"1", ".", "0">>,
                      <<"'", ",">>),
       DependencyLine(<<"x", "-", "r", "q">>,
                      <<" ", " ", " ", " ", "\"", "x", "-", "r", "q", ">", "=">>,
                      <<"1", ".", "0">>,
                      <<"\"", ",">>),
       DependencyLine(<<"r", "q">>,
                      <<" ", " ", " ", " ", "\"", "r", "q", ">", "=">>,
                      <<"1", ".", "0", ".", "1">>,
                      <<"\"", ",">>) >>

\* the k-th smallest element of a set of numbers
RECURSIVE Sorted(_)
Sorted(S) ==
    IF S = {} THEN <<>>
    ELSE LET least == CHOOSE x \in S : \A y \in S : x <= y
         IN  <<least>> \o Sorted(S \ {least})

\* the dependency arrays: up to MaxLines of the lines, in their order
LineChoices ==
    { [k \in 1..Cardinality(S) |-> DependencyLines[Sorted(S)[k]]] :
          S \in {T \in SUBSET (1..Len(DependencyLines)) :
                     Cardinality(T) \in 1..MaxLines} }

\* how requires-python is written: 'requires-python = ">=3.8"', the same
\* without the blanks around =, or not at all
RequiresPythonLines ==
    { <<"r", "e", "q", "u", "i", "r", "e", "s", "-", "p", "y", "t", "h", "o", "n",
        " ", "=", " ", "\"", ">", "=", "3", ".", "8", "\"", "\n">>,
      <<"r", "e", "q", "u", "i", "r", "e", "s", "-", "p", "y", "t", "h", "o", "n",
        "=", "\"", ">", "=", "3", ".", "8", "\"", "\n">>,
      <<>> }

Layouts == [requires_python : RequiresPythonLines, lines : LineChoices]

RECURSIVE LinesText(_)
LinesText(lines) ==
    IF lines = <<>> THEN <<>>
    ELSE Head(lines).prefix \o Head(lines).version \o Head(lines).trailer
         \o <<"\n">> \o LinesText(Tail(lines))

\* the text of a manifest
ManifestText(l) ==
    <<"[", "p", "r", "o", "j", "e", "c", "t", "]", "\n">>
    \o l.requires_python
    \o <<"d", "e", "p", "e", "n", "d", "e", "n", "c", "i", "e", "s", " ", "=", " ",
         "[", "\n">>
    \o LinesText(l.lines)
    \o <<"]", "\n">>

\* the package updates a scan can find: rq 1.0 -> 1.0.1, rq 1.0 -> 2.0,
\* rq 1.0.1 -> 2.0
PackageUpdates ==
    { UpdateInfo(<<"r", "q">>, <<"1", ".", "0">>, <<"1", ".", "0", ".", "1">>,
                 PyprojectPath),
      UpdateInfo(<<"r", "q">>, <<"1", ".", "0">>, <<"2", ".", "0">>, PyprojectPath),
      UpdateInfo(<<"r", "q">>, <<"1", ".", "0", ".", "1">>, <<"2", ".", "0">>,
                 PyprojectPath) }

\* the language-version update of requires-python ">=3.8": to ">=3.10"
PythonUpdates ==
    { NoPythonUpdate,
      PythonVersionUpdateInfo(<<">", "=", "3", ".", "8">>,
                              <<">", "=", "3", ".", "1", "0">>, PyprojectPath) }

\* a scan result agrees with the manifest it was made for: each package
\* update is for a package the manifest declares at that version, and a
\* language-version update needs a requires-python
AgreesWith(result, l) ==
    /\ \A i \in 1..Len(result.package_updates) :
           \E k \in 1..Len(l.lines) :
               /\ l.lines[k].package_name = result.package_updates[i].package_name
               /\ l.lines[k].version = result.package_updates[i].current_version
    /\ result.python_update # NoPythonUpdate => l.requires_python # <<>>

InitUpdate ==
    /\ IdlePipeline
    /\ IdleMain
    /\ IdlePatch
    /\ IdlePublish
    /\ IdleRepo
    /\ IdleEol
    /\ IdleParse
    /\ FreshCache
    /\ IdleLookup
    /\ IdleScan
    /\ layout \in Layouts
    /\ files = (PyprojectPath :> ManifestText(layout))
    /\ \E package_updates_arg \in SeqsOf(PackageUpdates, 0, MaxUpdates),
          python_update_arg \in PythonUpdates :
           /\ AgreesWith(FileAnalysisResult(PyprojectPath, package_updates_arg,
                                            python_update_arg),
                         layout)
           /\ analysis_results = <<FileAnalysisResult(PyprojectPath,
                                                      package_updates_arg,
                                                      python_update_arg)>>
    /\ calls = 0
    /\ update_ret = NotUpdated
    /\ written = <<>>
    /\ files_before = files
    /\ faults = NoFaults

\* a call of update_dependencies(analysis_results), no file operation failing
UpdateDependencies ==
    /\ UNCHANGED pipeline_vars
    /\ UNCHANGED main_vars
    /\ UNCHANGED patch_vars
    /\ UNCHANGED publish_vars
    /\ UNCHANGED repo_vars
    /\ UNCHANGED eol_vars
    /\ calls < MaxCalls
    /\ \E call \in {update_dependencies(files, analysis_results, NoFaults)} :
           /\ files' = call.files
           /\ update_ret' = [kind |-> call.kind, update_results |-> call.update_results]
           /\ written' = call.written
    /\ files_before' = files
    /\ calls' = calls + 1
    /\ UNCHANGED <<layout, analysis_results, faults>>
    /\ UNCHANGED <<parse_vars, cache_vars, lookup_vars, scan_vars>>

NextUpdate == UpdateDependencies

SpecUpdate == InitUpdate /\ [][NextUpdate]_vars

\* the manifest's text and what it was before the last call
Content == files[PyprojectPath]

ContentBefore == files_before[PyprojectPath]

\* the scan result the calls are made with
Result == analysis_results[1]

\* the k-th declaration line of a text written as `layout`: it follows the
\* [project] line, the requires-python line if any, and "dependencies = ["
DeclarationLine(text, k) ==
    Split(text, <<"\n">>)[k + 2 + (IF layout.requires_python = <<>> THEN 0 ELSE 1)]

(***************************************************************************)
(* C1.  update_dependencies writes the manifest and reports modified =     *)
(* true only if a substitution changed the text: when nothing in the file  *)
(* matches, the file is not written and the result is "not modified".      *)
(***************************************************************************)
C1_WrittenOnlyIfChanged ==
    calls >= 1 =>
        ((update_ret.update_results[1].modified \/ written # <<>>)
             => Content # ContentBefore)

(***************************************************************************)
(* C2.  Applying update_dependencies a second time with the same scan      *)
(* result leaves the text as it was after the first application.           *)
(***************************************************************************)
C2_SecondCallChangesNothing ==
    calls >= 2 => Content = ContentBefore

(***************************************************************************)
(* C3.  The package updates change only the declarations of their package  *)
(* at exactly their current version: the line of any other package, and of *)
(* the same package at another version, is left as it was.                 *)
(***************************************************************************)
\* the k-th declaration is one that a package update of the result is for
IsTarget(k) ==
    \E i \in 1..Len(Result.package_updates) :
        /\ layout.lines[k].package_name = Result.package_updates[i].package_name
        /\ layout.lines[k].version = Result.package_updates[i].current_version

C3_OtherDeclarationsUnchanged ==
    calls = 1 =>
        \A k \in 1..Len(layout.lines) :
            ~IsTarget(k) =>
                DeclarationLine(Content, k) = DeclarationLine(ContentBefore, k)

(***************************************************************************)
(* C4.  On a line where a package update replaces a version, what is       *)
(* before the version (package name, operator, opening quote) and what is  *)
(* after it up to the end of the line (closing quote, comma, comment) stay *)
(* as they were: the line is its old prefix, a version, its old trailer.   *)
(***************************************************************************)
VersionCharacters == Digits \cup {"."}

\* the line is prefix + a version + trailer
KeepsFormat(line, prefix, trailer) ==
    /\ Len(line) > Len(prefix) + Len(trailer)
    /\ SubSeq(line, 1, Len(prefix)) = prefix
    /\ SubSeq(line, Len(line) - Len(trailer) + 1, Len(line)) = trailer
    /\ \A p \in (Len(prefix) + 1)..(Len(line) - Len(trailer)) :
           line[p] \in VersionCharacters

C4_FormatPreserved ==
    calls >= 1 =>
        /\ Len(Split(Content, <<"\n">>)) = Len(Split(ManifestText(layout), <<"\n">>))
        /\ \A k \in 1..Len(layout.lines) :
               KeepsFormat(DeclarationLine(Content, k), layout.lines[k].prefix,
                           layout.lines[k].trailer)

\* the update rq 1.0 -> 2.0 has rewritten both the line with the comment and
\* the line in single quotes
C4_Witness ==
    /\ calls = 1
    /\ Len(layout.lines) = 2
    /\ DeclarationLine(ContentBefore, 1) =
           <<" ", " ", " ", " ", "\"", "r", "q", ">", "=", "1", ".", "0", "\"", ",",
             " ", " ", "#", " ", "p", "i", "n">>
    /\ DeclarationLine(Content, 1) =
           <<" ", " ", " ", " ", "\"", "r", "q", ">", "=", "2", ".", "0", "\"", ",",
             " ", " ", "#", " ", "p", "i", "n">>
    /\ DeclarationLine(ContentBefore, 2) =
           <<" ", " ", " ", " ", "'", "r", "q", " ", "=", "=", " ", "1", ".", "0",
             "'", ",">>
    /\ DeclarationLine(Content, 2) =
           <<" ", " ", " ", " ", "'", "r", "q", " ", "=", "=", " ", "2", ".", "0",
             "'", ",">>

(***************************************************************************)
(* SpecEol: one call of get_latest_python_versions, the end-of-life        *)
(* registry free to answer as it likes.                                    *)
(***************************************************************************)
\* the cycles the registry may list: "3.12", "3.11", "3.10", "3.9", "2.7",
\* and "3.x", which is no version
EolCycles ==
    { <<"3", ".", "1", "2">>, <<"3", ".", "1", "1">>, <<"3", ".", "1", "0">>,
      <<"3", ".", "9">>, <<"2", ".", "7">>, <<"3", ".", "x">> }

\* the sequences of distinct elements of S, of length lo to hi
DistinctSeqsOf(S, lo, hi) ==
    {s \in SeqsOf(S, lo, hi) : \A i, j \in 1..Len(s) : i # j => s[i] # s[j]}

EolExceptions == {"ConnectionError", "HTTPError", "JSONDecodeError", "KeyError"}

EolResponses ==
    {Cycles(c) : c \in DistinctSeqsOf(EolCycles, 0, MaxCycles)}
    \cup {EolFailure(e) : e \in EolExceptions}

InitEol ==
    /\ IdlePipeline
    /\ IdleMain
    /\ IdlePatch
    /\ IdlePublish
    /\ IdleRepo
    /\ IdleParse
    /\ FreshCache
    /\ IdleLookup
    /\ IdleScan
    /\ IdleUpdate
    /\ eol_response \in EolResponses
    /\ eol_ret = NotScanned

\* the call get_latest_python_versions()
GetLatestPythonVersions ==
    /\ UNCHANGED pipeline_vars
    /\ UNCHANGED main_vars
    /\ UNCHANGED patch_vars
    /\ UNCHANGED publish_vars
    /\ UNCHANGED repo_vars
    /\ eol_ret = NotScanned
    /\ eol_ret' = get_latest_python_versions(eol_response)
    /\ UNCHANGED eol_response
    /\ UNCHANGED <<parse_vars, cache_vars, lookup_vars, scan_vars, update_vars>>

NextEol == GetLatestPythonVersions

SpecEol == InitEol /\ [][NextEol]_vars

(***************************************************************************)
(* C13.  On a response that lists cycles, get_latest_python_versions       *)
(* returns cycles of the 3.x line only, in strictly descending order of    *)
(* version precedence (3.10 above 3.9), the highest                        *)
(* NUM_LATEST_PYTHON_VERSIONS of them; for the cycles 3.12, 3.11, 3.10 and *)
(* 3.9 in any order it returns [3.12, 3.11, 3.10].                         *)
(***************************************************************************)
\* the 3.x cycles of the response
Python3Cycles == {c \in Range(eol_response.cycles) : StartsWith(c, <<"3", ".">>)}

\* the response lists cycles, and those of the 3.x line are versions
ListsVersions ==
    /\ eol_response.kind = "ok"
    /\ \A c \in Python3Cycles : IsValidVersion(c)

C13_LatestThreeDescending ==
    (eol_ret # NotScanned /\ ListsVersions) =>
        /\ eol_ret.kind = "return"
        /\ Range(eol_ret.versions) \subseteq Python3Cycles
        /\ \A i, j \in 1..Len(eol_ret.versions) :
               i < j => HigherPrecedence(eol_ret.versions[i], eol_ret.versions[j])
        /\ Len(eol_ret.versions) =
               IF Cardinality(Python3Cycles) < 3 THEN Cardinality(Python3Cycles) ELSE 3
        /\ \A c \in Python3Cycles \ Range(eol_ret.versions) :
               \A i \in 1..Len(eol_ret.versions) :
                   HigherPrecedence(eol_ret.versions[i], c)
        /\ Range(eol_response.cycles) =
               { <<"3", ".", "1", "2">>, <<"3", ".", "1", "1">>,
                 <<"3", ".", "1", "0">>, <<"3", ".", "9">> }
               => eol_ret.versions =
                      << <<"3", ".", "1", "2">>, <<"3", ".", "1", "1">>,
                         <<"3", ".", "1", "0">> >>

\* the registry listed 3.9, 3.12, 3.10, 3.11 in that order
C13_Witness ==
    /\ eol_response.cycles =
           << <<"3", ".", "9">>, <<"3", ".", "1", "2">>, <<"3", ".", "1", "0">>,
              <<"3", ".", "1", "1">> >>
    /\ eol_ret = Returns(<< <<"3", ".", "1", "2">>, <<"3", ".", "1", "1">>,
                            <<"3", ".", "1", "0">> >>)

(***************************************************************************)
(* C14.  get_latest_python_versions never raises: whenever the request or  *)
(* the reading of the response fails, it returns the fallback list         *)
(* [3.12, 3.11, 3.10].                                                     *)
(***************************************************************************)
C14_FallbackOnFailure ==
    eol_ret # NotScanned =>
        /\ eol_ret.kind = "return"
        /\ ~ListsVersions => eol_ret.versions = FallbackVersions

\* the registry's body was not JSON and the fallback was returned
C14_Witness ==
    /\ eol_response = EolFailure("JSONDecodeError")
    /\ eol_ret = Returns(FallbackVersions)

(***************************************************************************)
(* SpecRepo: one call of scan_repository in a fresh process, the two       *)
(* registries free to answer as they like.                                 *)
(***************************************************************************)
\* the manifests of a repository: one that does not load; one with no
\* [project] table; requires-python = ">=3.8" and no dependency;
\* dependencies = ["rq>=1.9"]; dependencies = ["rq>=1.9,<3"];
\* requires-python = ">=3.10" with dependencies = ["np==1.10"]
RepoManifests ==
    { BrokenManifest,
      Manifest(FALSE, <<>>, <<>>, <<>>),
      Manifest(TRUE, <<">", "=", "3", ".", "8">>, <<>>, <<>>),
      Manifest(TRUE, <<>>, << <<"r", "q", ">", "=", "1", ".", "9">> >>, <<>>),
      Manifest(TRUE, <<>>,
               << <<"r", "q", ">", "=", "1", ".", "9", ",", "<", "3">> >>, <<>>),
      Manifest(TRUE, <<">", "=", "3", ".", "1", "0">>,
               << <<"n", "p", "=", "=", "1", ".", "1", "0">> >>, <<>>) }

\* what the end-of-life registry answers: 3.12, 3.11, 3.10 and 3.9; 2.7
\* alone; a failure
RepoEolResponses ==
    { Cycles(<< <<"3", ".", "1", "2">>, <<"3", ".", "1", "1">>,
                <<"3", ".", "1", "0">>, <<"3", ".", "9">> >>),
      Cycles(<< <<"2", ".", "7">> >>),
      EolFailure("ConnectionError") }

\* the packages the manifests of a repository declare
RepoPackages == {<<"r", "q">>, <<"n", "p">>}

InitRepo ==
    /\ IdlePipeline
    /\ IdleMain
    /\ IdlePatch
    /\ IdlePublish
    /\ IdleParse
    /\ FreshCache
    /\ IdleLookup
    /\ IdleScan
    /\ IdleUpdate
    /\ eol_response \in RepoEolResponses
    /\ eol_ret = NotScanned
    /\ repository \in SeqsOf(RepoManifests, 0, MaxFiles)
    /\ repo_ret = NotScanned
    /\ scans = <<>>

\* the call scan_repository(repo_path)
ScanRepository(answers) ==
    /\ UNCHANGED pipeline_vars
    /\ UNCHANGED main_vars
    /\ UNCHANGED patch_vars
    /\ UNCHANGED publish_vars
    /\ repo_ret = NotScanned
    /\ \E call \in {scan_repository(repository, eol_response, answers, PYPI_CACHE,
                                     registry_requests)} :
           /\ repo_ret' = call.ret
           /\ eol_ret' = call.latest
           /\ scans' = call.scans
           /\ PYPI_CACHE' = call.cache
           /\ registry_requests' = call.requests
    /\ UNCHANGED <<repository, eol_response>>
    /\ UNCHANGED <<parse_vars, lookup_vars, scan_vars, update_vars>>

NextRepo == \E answers \in [RepoPackages -> RegistryAnswers] : ScanRepository(answers)

SpecRepo == InitRepo /\ [][NextRepo]_vars

(***************************************************************************)
(* C15.  scan_repository returns exactly the results of scan_file that are *)
(* not SENTINEL, in the order the manifests were discovered, each once: a  *)
(* manifest that does not load, one with no [project] table and one that   *)
(* needs no update have no entry.                                          *)
(***************************************************************************)
\* the i-th manifest has something to update, the registry's answers being
\* those the cache holds
HasUpdate(i) ==
    LET m == repository[i]
        deps == Extend(m.dependencies, m.optional_dependencies)
    IN  /\ m.load = "ok"
        /\ m.has_project
        /\ \/ Unsupported(m, eol_ret.versions)
           \/ \E k \in 1..Len(deps) :
                  LET dep == parse_dependency_version(deps[k])
                  IN  /\ dep[2] # <<>>
                      /\ dep[1] \in DOMAIN PYPI_CACHE
                      /\ PYPI_CACHE[dep[1]] # SENTINEL
                      /\ HigherPrecedence(PYPI_CACHE[dep[1]], dep[2])

C15_ResultsInDiscoveryOrder ==
    repo_ret.kind = "return" =>
        LET updated == SelectSeq([i \in 1..Len(repository) |-> i], HasUpdate)
        IN  /\ Len(scans) = Len(repository)
            /\ repo_ret.results = SelectSeq(scans, LAMBDA r : r # ReturnsSentinel)
            /\ Len(repo_ret.results) = Len(updated)
            /\ \A k \in 1..Len(updated) :
                   /\ repo_ret.results[k].kind = "FileAnalysisResult"
                   /\ repo_ret.results[k].file_path = RepoPath(updated[k])

\* a manifest with no [project] table was found first, then one whose
\* "rq>=1.9" is out of date: the result holds the second alone
C15_Witness ==
    /\ repo_ret.kind = "return"
    /\ Len(repository) = 2
    /\ repository[1] = Manifest(FALSE, <<>>, <<>>, <<>>)
    /\ Len(repo_ret.results) = 1
    /\ repo_ret.results[1].file_path = RepoPath(2)
    /\ repo_ret.results[1].package_updates # <<>>

(***************************************************************************)
(* C16.  Whatever is wrong with one manifest or one of its declarations (a *)
(* file that does not load, a failed lookup, a declared version that is no *)
(* version), scan_repository scans every manifest and returns the results  *)
(* of the others: it never stops at a bad manifest.                        *)
(***************************************************************************)
C16_ScanNeverAborts ==
    (repo_ret # NotScanned /\ eol_ret.versions # <<>>) =>
        /\ repo_ret.kind = "return"
        /\ Len(scans) = Len(repository)

\* C16 for the manifests that do not load and the lookups that fail: with no
\* declaration whose version is no version, every manifest is scanned
C16_LoadAndLookupFailuresSkipped ==
    (/\ repo_ret # NotScanned
     /\ eol_ret.versions # <<>>
     /\ \A i \in 1..Len(repository) :
            \A k \in 1..Len(repository[i].dependencies) :
                ~UnsupportedShape(repository[i].dependencies[k]))
        => /\ repo_ret.kind = "return"
           /\ Len(scans) = Len(repository)

(***************************************************************************)
(* C30.  The supported-version list scan_repository passes to scan_file is *)
(* never empty, whatever the end-of-life registry answers (also a          *)
(* successful response without a 3.x cycle), so the lowest supported       *)
(* version is always defined and scan_file never raises computing it.      *)
(* (SpecRepo.)                                                             *)
(***************************************************************************)
\* a call of scan_file raised computing min() of the supported versions
MinRaised == \E i \in 1..Len(scans) : scans[i] = Raises("ValueError")

C30_SupportedListNeverEmpty ==
    repo_ret # NotScanned => (eol_ret.versions # <<>> /\ ~MinRaised)

\* C30 for the responses that fail or hold a 3.x cycle
C30_NonEmptyGivenPython3Cycle ==
    (/\ repo_ret # NotScanned
     /\ eol_response.kind = "ok" => Py3Versions(eol_response.cycles) # <<>>)
        => (eol_ret.versions # <<>> /\ ~MinRaised)

(***************************************************************************)
(* SpecPass: one call of update_dependencies on the scan results of        *)
(* several files, one of which may fail to be read or written.             *)
(***************************************************************************)
PathA == "a/pyproject.toml"

PathB == "b/pyproject.toml"

\* a path with no file at it: open("r") raises FileNotFoundError
MissingPath == "c/pyproject.toml"

\* the files: each with requires-python = ">=3.8" and one declaration of rq
\* at 1.0, written differently in the two
PassFiles ==
    (PathA :> ManifestText([requires_python |->
                                <<"r", "e", "q", "u", "i", "r", "e", "s", "-", "p",
                                  "y", "t", "h", "o", "n", " ", "=", " ", "\"", ">",
                                  "=", "3", ".", "8", "\"", "\n">>,
                            lines |-> <<DependencyLines[1]>>]))
    @@ (PathB :> ManifestText([requires_python |->
                                   <<"r", "e", "q", "u", "i", "r", "e", "s", "-",
                                     "p", "y", "t", "h", "o", "n", " ", "=", " ",
                                     "\"", ">", "=", "3", ".", "8", "\"", "\n">>,
                               lines |-> <<DependencyLines[2]>>]))

\* the scan results for a path: nothing to update, rq 1.0 -> 2.0, or
\* requires-python >=3.8 -> >=3.10
PassResults ==
    UNION { { FileAnalysisResult(p, <<>>, NoPythonUpdate),
              FileAnalysisResult(
                  p, <<UpdateInfo(<<"r", "q">>, <<"1", ".", "0">>, <<"2", ".", "0">>, p)>>,
                  NoPythonUpdate),
              FileAnalysisResult(
                  p, <<>>,
                  PythonVersionUpdateInfo(<<">", "=", "3", ".", "8">>,
                                          <<">", "=", "3", ".", "1", "0">>, p)) } :
            p \in {PathA, PathB, MissingPath} }

\* nothing fails, or one file cannot be read, cannot be opened for writing,
\* or is emptied by a write that fails
PassFaults ==
    {NoFaults}
    \cup {[NoFaults EXCEPT !.unreadable = {p}] : p \in {PathA, PathB}}
    \cup {[NoFaults EXCEPT !.unwritable = {p}] : p \in {PathA, PathB}}
    \cup {[NoFaults EXCEPT !.torn = {p}] : p \in {PathA, PathB}}

InitPass ==
    /\ IdlePipeline
    /\ IdleMain
    /\ IdlePatch
    /\ IdlePublish
    /\ IdleParse
    /\ FreshCache
    /\ IdleLookup
    /\ IdleScan
    /\ IdleEol
    /\ IdleRepo
    /\ files = PassFiles
    /\ layout = <<>>
    /\ analysis_results \in SeqsOf(PassResults, 0, MaxResults)
    /\ faults \in PassFaults
    /\ calls = 0
    /\ update_ret = NotUpdated
    /\ written = <<>>
    /\ files_before = files

\* the call update_dependencies(analysis_results)
UpdatePass ==
    /\ UNCHANGED pipeline_vars
    /\ UNCHANGED main_vars
    /\ UNCHANGED patch_vars
    /\ UNCHANGED publish_vars
    /\ calls = 0
    /\ \E call \in {update_dependencies(files, analysis_results, faults)} :
           /\ files' = call.files
           /\ update_ret' = [kind |-> call.kind, update_results |-> call.update_results]
           /\ written' = call.written
    /\ files_before' = files
    /\ calls' = 1
    /\ UNCHANGED <<layout, analysis_results, faults>>
    /\ UNCHANGED <<parse_vars, cache_vars, lookup_vars, scan_vars, eol_vars, repo_vars>>

NextPass == UpdatePass

SpecPass == InitPass /\ [][NextPass]_vars

(***************************************************************************)
(* C17.  A read or write failure on one file does not stop the pass: the   *)
(* other files are patched and written, and reported, as they are by a     *)
(* call without the failing file's scan results, and a file whose write    *)
(* failed is reported with modified = false.                               *)
(***************************************************************************)
\* the paths whose read or write fails
Failing == faults.unreadable \cup faults.unwritable \cup faults.torn \cup {MissingPath}

WriteFails == faults.unwritable \cup faults.torn

\* the entries of a list of results that are for the other files
OfOthers(results) == SelectSeq(results, LAMBDA r : r.file_path \notin Failing)

C17_FailureDoesNotStopThePass ==
    (calls = 1 /\ analysis_results # <<>>) =>
        LET alone == update_dependencies(files_before, OfOthers(analysis_results),
                                         NoFaults)
        IN  /\ update_ret.kind = "list"
            /\ OfOthers(update_ret.update_results) = alone.update_results
            /\ \A p \in DOMAIN files \ Failing : files[p] = alone.files[p]
            /\ SelectSeq(written, LAMBDA p : p \notin Failing) = alone.written
            /\ \A i \in 1..Len(update_ret.update_results) :
                   update_ret.update_results[i].file_path \in WriteFails
                       => ~update_ret.update_results[i].modified

\* the write of the first file failed and the second file was updated
C17_Witness ==
    /\ calls = 1
    /\ faults.torn = {PathA}
    /\ Len(analysis_results) = 2
    /\ analysis_results[1].file_path = PathA
    /\ analysis_results[1].package_updates # <<>>
    /\ update_ret.update_results = <<UpdateResult(PathA, FALSE), UpdateResult(PathB, TRUE)>>
    /\ files[PathB] # files_before[PathB]

NothingToUpdate(result) ==
    result.package_updates = <<>> /\ result.python_update = NoPythonUpdate

\* the scan result's file cannot be read
CannotBeRead(result) ==
    result.file_path \in faults.unreadable \cup {MissingPath}

Commands ==
    {"git config", "git rev-parse HEAD", "git checkout", "git checkout -b",
     "git add", "git status", "git commit", "git push", "github api", "gh",
     "gh pr list", "gh pr view", "gh pr create"}

PublishEnvs ==
    { PublishEnv(installed, importable, repo_info, branch, changes, pr_exists, failing) :
          installed \in BOOLEAN, importable \in BOOLEAN, repo_info \in BOOLEAN,
          branch \in {"current", "exists", "absent"}, changes \in BOOLEAN,
          pr_exists \in BOOLEAN, failing \in {{}} \cup {{c} : c \in Commands} }

InitPublish ==
    /\ IdlePipeline
    /\ IdleMain
    /\ IdlePatch
    /\ IdleParse
    /\ FreshCache
    /\ IdleLookup
    /\ IdleScan
    /\ IdleUpdate
    /\ IdleEol
    /\ IdleRepo
    /\ publish_env \in {env \in PublishEnvs : env.importable => env.installed}
    /\ publish_ret = NotScanned
    /\ attempted = <<>>
    /\ git_log = <<>>

\* the call create_or_update_pull_request(repo_path, branch_name,
\* updated_files, github_token)
CreateOrUpdatePullRequest ==
    /\ UNCHANGED pipeline_vars
    /\ UNCHANGED main_vars
    /\ UNCHANGED patch_vars
    /\ publish_ret = NotScanned
    /\ \E call \in {create_or_update_pull_request(publish_env)} :
           /\ publish_ret' = call.ret
           /\ attempted' = call.attempted
           /\ git_log' = call.log
    /\ UNCHANGED publish_env
    /\ UNCHANGED <<parse_vars, cache_vars, lookup_vars, scan_vars, update_vars,
                   eol_vars, repo_vars>>

NextPublish == CreateOrUpdatePullRequest

SpecPublish == InitPublish /\ [][NextPublish]_vars

(***************************************************************************)
(* C20.  create_or_update_pull_request tries PyGithub, then gh CLI, and    *)
(* whenever it fails, the error its caller gets is the RuntimeError        *)
(* "Could not create PR with either PyGithub or gh CLI" - also when        *)
(* PyGithub is installed and its attempt fails for another reason than a   *)
(* missing import.                                                         *)
(***************************************************************************)
C20_FailureIsTheFatalError ==
    publish_ret # NotScanned =>
        /\ attempted \in {<<"PyGithub">>, <<"gh CLI">>, <<"PyGithub", "gh CLI">>}
        /\ publish_ret.kind = "raise" => publish_ret = Raises("RuntimeError")

\* C20 for the calls in which gh CLI was attempted: the error is the
\* RuntimeError
C20_FatalErrorAfterGhCli ==
    (publish_ret # NotScanned /\ publish_ret.kind = "raise"
     /\ attempted[Len(attempted)] = "gh CLI")
        => publish_ret = Raises("RuntimeError")

(***************************************************************************)
(* C21.  In both backends, when nothing is staged after "git add", the     *)
(* call returns "No changes to commit" and leaves nothing behind: no       *)
(* commit, no push, no pull request created or queried, and no new branch. *)
(***************************************************************************)
\* the command was run during the call
Ran(command) == \E i \in 1..Len(git_log) : git_log[i] = command

NothingToCommit == publish_ret = ReturnsValue(NoChangesToCommit)

PullRequestCommands ==
    {"get_pulls", "create_pull", "gh pr list", "gh pr view", "gh pr create"}

C21_NoChangesLeavesNothing ==
    (publish_ret # NotScanned /\ publish_ret.kind # "raise" /\ ~publish_env.changes)
        => /\ NothingToCommit
           /\ \A command \in {"git commit", "git push", "git checkout -b"}
                             \cup PullRequestCommands : ~Ran(command)

\* C21 without its last part: nothing is committed, pushed, or asked of the
\* pull requests
C21_NoChangesNothingPublished ==
    (publish_ret # NotScanned /\ publish_ret.kind # "raise" /\ ~publish_env.changes)
        => /\ NothingToCommit
           /\ \A command \in {"git commit", "git push"} \cup PullRequestCommands :
                  ~Ran(command)

(***************************************************************************)
(* C22.  With changes to commit, the call commits, then pushes, then       *)
(* takes the pull-request step, in that order; the step creates a pull     *)
(* request only if no open one from the branch exists, and otherwise       *)
(* returns the existing one's URL and creates none.  At most one pull      *)
(* request is created per call.                                            *)
(***************************************************************************)
\* the places of the command in the commands run
Places(command) == {i \in 1..Len(git_log) : git_log[i] = command}

\* every run of the first command precedes every run of the second
Precedes(first, second) ==
    \A i \in Places(first), j \in Places(second) : i < j

CreateCommands == {"create_pull", "gh pr create"}

\* the call created a pull request
Created == publish_ret = ReturnsValue(NewPrUrl)

C22_CommitPushThenOnePullRequest ==
    (publish_ret # NotScanned /\ publish_env.changes) =>
        /\ Precedes("git commit", "git push")
        /\ \A command \in PullRequestCommands :
               Places(command) # {} =>
                   /\ Places("git commit") # {} /\ Places("git push") # {}
                   /\ Precedes("git push", command)
        /\ publish_ret.kind = "return" =>
               /\ Places("git commit") # {} /\ Places("git push") # {}
               /\ \E command \in PullRequestCommands : Places(command) # {}
               /\ publish_ret = ReturnsValue(IF publish_env.pr_exists
                                             THEN ExistingPrUrl ELSE NewPrUrl)
        /\ Created => ~publish_env.pr_exists
        /\ ~Created => \A command \in CreateCommands :
                           Places(command) # {} => publish_ret.kind = "raise"
        /\ Cardinality(UNION {Places(command) : command \in CreateCommands}) <= 1

C22_Witness ==
    /\ publish_env.changes /\ publish_env.pr_exists
    /\ publish_ret = ReturnsValue(ExistingPrUrl)
    /\ Places("git push") # {}

(***************************************************************************)
(* SpecPatch: one call of create_git_patch, in any environment in which at *)
(* most two kinds of command fail.                                         *)
(***************************************************************************)
PatchEnvs ==
    LET commands == {"git branch --show-current", "git checkout -b",
                     "git checkout", "git add", "git commit",
                     "git format-patch", CheckoutOriginal}
    IN  { PatchEnv(head, failing, error, writable) :
              head \in {"main", ""},
              failing \in {F \in SUBSET commands : Cardinality(F) <= 2},
              error \in {"CalledProcessError", "Exception"},
              writable \in BOOLEAN }

InitPatch ==
    /\ IdlePipeline
    /\ IdleMain
    /\ IdleParse
    /\ FreshCache
    /\ IdleLookup
    /\ IdleScan
    /\ IdleUpdate
    /\ IdleEol
    /\ IdleRepo
    /\ IdlePublish
    /\ patch_env \in PatchEnvs
    /\ patch_ret = NotScanned
    /\ patch_log = <<>>

\* the call create_git_patch(repo_path, branch_name, updated_files,
\* output_path)
CreateGitPatch ==
    /\ UNCHANGED pipeline_vars
    /\ UNCHANGED main_vars
    /\ patch_ret = NotScanned
    /\ \E call \in {create_git_patch(patch_env)} :
           /\ patch_ret' = call.ret
           /\ patch_log' = call.log
    /\ UNCHANGED patch_env
    /\ UNCHANGED <<parse_vars, cache_vars, lookup_vars, scan_vars, update_vars,
                   eol_vars, repo_vars, publish_vars>>

NextPatch == CreateGitPatch

SpecPatch == InitPatch /\ [][NextPatch]_vars

(***************************************************************************)
(* C23.  create_git_patch restores the original branch in every outcome:   *)
(* when a git step after the branch switch fails, a checkout of the branch *)
(* that was current at entry is attempted before SENTINEL is returned; on  *)
(* success the last git operation is that checkout; it never raises.       *)
(***************************************************************************)
\* the call went as far as switching the branch
SwitchAttempted ==
    \E i \in 1..Len(patch_log) : patch_log[i] = "git checkout -b"

\* the last command of the call was the checkout of the original branch
RestoreAttempted ==
    /\ patch_log # <<>>
    /\ patch_log[Len(patch_log)] = CheckoutOriginal

C23_OriginalBranchRestored ==
    patch_ret # NotScanned =>
        /\ patch_ret \in {ReturnsSentinel, ReturnsValue(PatchPath)}
        /\ SwitchAttempted => RestoreAttempted

\* C23 for the calls that start on a branch
C23_NamedBranchRestored ==
    (patch_ret # NotScanned /\ patch_env.head # "") =>
        /\ patch_ret \in {ReturnsSentinel, ReturnsValue(PatchPath)}
        /\ SwitchAttempted => RestoreAttempted

(***************************************************************************)
(* main.py: main.                                                          *)
(*                                                                         *)
(* A run of main is given the parsed command line, os.environ, what        *)
(* scan_repository returns or raises, the files and what goes wrong with   *)
(* them, whether the manifests differed from HEAD before the run (dirty),  *)
(* and the environments of the publisher and of create_git_patch.  "git    *)
(* status" finds changes, and "git commit" has something to commit, when   *)
(* the manifests were dirty or a file among updated_files got new text.    *)
(***************************************************************************)
\* main ends without a return statement
ReturnsNone == [kind |-> "None"]

\* sys.exit(main()): the exit status of the process
ExitStatus(ret) == IF ret = ReturnsNone THEN 0 ELSE ret.value

\* os.environ.get(name, default)
EnvironGet(env, name, default) ==
    IF name \in DOMAIN env THEN env[name] ELSE default

\* a bug for dry_run: the flag is ignored
dry_run_ignored(a) == FALSE

\* dry_run = args.dry_run
dry_run(a) == a.dry_run

\* what a run of main leaves: what main returned, the functions it called,
\* the files, what update_dependencies, the publisher and create_git_patch
\* did, and the token and environments they were given
MainRun(ret, main_calls_, upd, token, penv, pub, genv, patch) ==
    [ret |-> ret, calls |-> main_calls_, files |-> upd.files,
     written |-> upd.written,
     update |-> [kind |-> upd.kind, update_results |-> upd.update_results],
     token |-> token, penv |-> penv, pub |-> pub, genv |-> genv, patch |-> patch]

\* main from "if create_pr:" on
PublishOrPatch(a, env, upd, changed, penv, genv) ==
    LET create_pr == ~a.no_pr /\ ~dry_run(a) /\ ~a.offline_pr
        create_offline_pr == a.offline_pr /\ ~dry_run(a)
        token == EnvironGet(env, "GITHUB_TOKEN", a.token)
        penv_used == [penv EXCEPT !.changes = changed]
        pub == create_or_update_pull_request(penv_used)
        genv_used == IF changed THEN genv
                     ELSE [genv EXCEPT !.failing = @ \cup {"git commit"}]
        patch == create_git_patch(genv_used)
        none == [ret |-> NotScanned, attempted |-> <<>>, log |-> <<>>]
        called == <<"scan_repository", "update_dependencies">>
    IN  IF create_pr
        THEN MainRun(IF pub.ret.kind = "raise" THEN ReturnsValue(1) ELSE ReturnsNone,
                     Append(called, "create_or_update_pull_request"),
                     upd, token, penv_used, pub, genv,
                     [ret |-> NotScanned, log |-> <<>>])
        ELSE IF create_offline_pr
        THEN MainRun(IF patch.ret = ReturnsSentinel THEN ReturnsValue(1)
                     ELSE ReturnsNone,
                     Append(called, "create_git_patch"),
                     upd, "<not passed>", penv, none, genv_used, patch)
        ELSE MainRun(ReturnsNone, called, upd, "<not passed>", penv, none, genv,
                     [ret |-> NotScanned, log |-> <<>>])

main(a, env, scan, fs, flt, was_dirty, penv, genv) ==
    LET nothing == [kind |-> "not called", update_results |-> <<>>, files |-> fs,
                    written |-> <<>>]
        none == [ret |-> NotScanned, attempted |-> <<>>, log |-> <<>>]
        nopatch == [ret |-> NotScanned, log |-> <<>>]
        Stop(ret) == MainRun(ReturnsValue(ret), <<"scan_repository">>, nothing,
                             "<not passed>", penv, none, genv, nopatch)
    IN  IF scan.kind = "raise" THEN Stop(1)
        ELSE IF scan.results = <<>> THEN Stop(0)
        ELSE IF dry_run(a) THEN Stop(0)
        ELSE LET upd == update_dependencies(fs, scan.results, flt)
                 updated == SelectSeq(upd.update_results, LAMBDA r : r.modified)
                 changed == \/ was_dirty
                            \/ \E i \in 1..Len(updated) :
                                   upd.files[updated[i].file_path]
                                       # fs[updated[i].file_path]
                 After(ret) ==
                     MainRun(ReturnsValue(ret),
                             <<"scan_repository", "update_dependencies">>, upd,
                             "<not passed>", penv, none, genv, nopatch)
             IN  IF upd.kind = "SENTINEL" THEN After(1)
                 ELSE IF updated = <<>> THEN After(0)
                 ELSE PublishOrPatch(a, env, upd, changed, penv, genv)

(***************************************************************************)
(* SpecMain: one run of main.                                              *)
(***************************************************************************)
\* the manifests: PathA as in PassFiles, PathB with its requires-python
\* written without blanks around "="
MainFiles ==
    [PassFiles EXCEPT ![PathB] =
        ManifestText([requires_python |->
                          <<"r", "e", "q", "u", "i", "r", "e", "s", "-", "p", "y",
                            "t", "h", "o", "n", "=", "\"", ">", "=", "3", ".", "8",
                            "\"", "\n">>,
                      lines |-> <<DependencyLines[2]>>])]

\* what scan_repository does: it raises, or returns a list of results, of
\* which the one for PathB is an update of requires-python
MainScans ==
    LET rq == FileAnalysisResult(
                  PathA, <<UpdateInfo(<<"r", "q">>, <<"1", ".", "0">>,
                                      <<"2", ".", "0">>, PathA)>>,
                  NoPythonUpdate)
        py(p) == FileAnalysisResult(
                     p, <<>>,
                     PythonVersionUpdateInfo(<<">", "=", "3", ".", "8">>,
                                             <<">", "=", "3", ".", "1", "0">>, p))
    IN  {Raises("InvalidVersion")}
        \cup {[kind |-> "list", results |-> results] :
                  results \in {<<>>, <<rq>>, <<py(PathA)>>, <<py(PathB)>>,
                               <<rq, py(PathB)>>}}

MainArgs ==
    [no_pr : BOOLEAN, offline_pr : BOOLEAN, dry_run : BOOLEAN,
     token : {"<None>", "flag-token"}]

InitMain ==
    /\ IdlePipeline
    /\ IdleParse
    /\ FreshCache
    /\ IdleLookup
    /\ IdleScan
    /\ IdleEol
    /\ IdleRepo
    /\ args \in MainArgs
    /\ environ \in {[name \in {} |-> ""], [name \in {"GITHUB_TOKEN"} |-> "env-token"]}
    /\ scanned \in MainScans
    /\ dirty \in BOOLEAN
    /\ main_ret = NotScanned
    /\ main_calls = <<>>
    /\ github_token = "<not passed>"
    /\ files = MainFiles
    /\ layout = <<>>
    /\ analysis_results = <<>>
    /\ faults \in {NoFaults, [NoFaults EXCEPT !.unwritable = {PathA}],
                   [NoFaults EXCEPT !.unreadable = {PathA}]}
    /\ calls = 0
    /\ update_ret = NotUpdated
    /\ written = <<>>
    /\ files_before = files
    /\ publish_env \in {PublishEnv(installed, installed, TRUE, "absent", FALSE,
                                   FALSE, failing) :
                            installed \in BOOLEAN, failing \in {{}, {"git push"}}}
    /\ publish_ret = NotScanned
    /\ attempted = <<>>
    /\ git_log = <<>>
    /\ patch_env \in {PatchEnv("main", {}, "CalledProcessError", TRUE),
                      PatchEnv("main", {"git add"}, "CalledProcessError", TRUE),
                      PatchEnv("main", {}, "CalledProcessError", FALSE)}
    /\ patch_ret = NotScanned
    /\ patch_log = <<>>

\* the run of main
Main ==
    /\ UNCHANGED pipeline_vars
    /\ main_ret = NotScanned
    /\ \E run \in {main(args, environ, scanned, files, faults, dirty,
                        publish_env, patch_env)} :
           /\ main_ret' = run.ret
           /\ main_calls' = run.calls
           /\ github_token' = run.token
           /\ files' = run.files
           /\ written' = run.written
           /\ update_ret' = run.update
           /\ publish_env' = run.penv
           /\ publish_ret' = run.pub.ret
           /\ attempted' = run.pub.attempted
           /\ git_log' = run.pub.log
           /\ patch_env' = run.genv
           /\ patch_ret' = run.patch.ret
           /\ patch_log' = run.patch.log
    /\ analysis_results' = IF scanned.kind = "list" THEN scanned.results ELSE <<>>
    /\ calls' = IF update_ret' = NotUpdated THEN 0 ELSE 1
    /\ files_before' = files
    /\ UNCHANGED <<args, environ, scanned, dirty, layout, faults>>
    /\ UNCHANGED <<parse_vars, cache_vars, lookup_vars, scan_vars, eol_vars,
                   repo_vars>>

NextMain == Main

SpecMain == InitMain /\ [][NextMain]_vars

(***************************************************************************)
(* C24.  With --dry-run, main only scans, whatever the other flags:        *)
(* update_dependencies is not called, no manifest is written, and neither  *)
(* create_or_update_pull_request nor create_git_patch is called.           *)
(***************************************************************************)
MainDone == main_ret # NotScanned

C24_DryRunOnlyScans ==
    (MainDone /\ args.dry_run) =>
        /\ main_calls = <<"scan_repository">>
        /\ update_ret = NotUpdated
        /\ written = <<>>
        /\ files = files_before
        /\ publish_ret = NotScanned /\ git_log = <<>>
        /\ patch_ret = NotScanned /\ patch_log = <<>>

C24_Witness ==
    /\ MainDone /\ args.dry_run /\ args.offline_pr
    /\ scanned.kind = "list" /\ scanned.results # <<>>
    /\ main_ret = ReturnsValue(0)

(***************************************************************************)
(* C25.  The exit status of main is 0 on success and whenever there is     *)
(* nothing to do (no scan results, dry run, no file modified, or a pass    *)
(* whose patterns changed no text), and 1 exactly on unrecoverable         *)
(* failures (update_dependencies returns SENTINEL, the publisher raises,   *)
(* create_git_patch fails, or an exception reaches main).                  *)
(***************************************************************************)
Unrecoverable ==
    \/ scanned.kind = "raise"
    \/ update_ret.kind = "SENTINEL"
    \/ publish_ret.kind = "raise"
    \/ patch_ret = ReturnsSentinel

\* update_dependencies ran and changed no text
NoTextChanged == update_ret.kind = "list" /\ files = files_before

NothingToDo ==
    \/ scanned.kind = "list" /\ scanned.results = <<>>
    \/ scanned.kind = "list" /\ args.dry_run
    \/ update_ret.kind = "list"
           /\ \A i \in 1..Len(update_ret.update_results) :
                  ~update_ret.update_results[i].modified
    \/ NoTextChanged

C25_ExitStatus ==
    MainDone =>
        /\ ExitStatus(main_ret) \in {0, 1}
        /\ ExitStatus(main_ret) = 1 <=> Unrecoverable
        /\ NothingToDo => ExitStatus(main_ret) = 0

\* C25 without the pass that changed no text: 1 exactly on the failures
C25_ExitStatusOfFailures ==
    MainDone =>
        /\ ExitStatus(main_ret) \in {0, 1}
        /\ ExitStatus(main_ret) = 1 <=> Unrecoverable

(***************************************************************************)
(* C26.  The credential passed to the publisher is the value of --token    *)
(* whenever the flag is given; GITHUB_TOKEN is only the default for a run  *)
(* without the flag.                                                       *)
(***************************************************************************)
PublisherCalled ==
    \E i \in 1..Len(main_calls) : main_calls[i] = "create_or_update_pull_request"

C26_FlagBeforeEnvironment ==
    PublisherCalled =>
        github_token = IF args.token # "<None>" THEN args.token
                       ELSE EnvironGet(environ, "GITHUB_TOKEN", "<None>")

\* C26 as the code has it: the environment variable, and the flag for a run
\* without it
C26_EnvironmentBeforeFlag ==
    PublisherCalled =>
        github_token = IF "GITHUB_TOKEN" \in DOMAIN environ
                       THEN environ["GITHUB_TOKEN"] ELSE args.token

(***************************************************************************)
(* C27.  Within one file, update_dependencies applies the substitution of  *)
(* requires-python first, then the package substitutions in the order of   *)
(* package_updates, each on the text the one before it produced; the text  *)
(* written is the result of that sequence.  (SpecUpdate.)                  *)
(***************************************************************************)
\* the text after the substitution of requires-python (k = 0) and after
\* the k-th package substitution
TextAfterStep ==
    LET updates == Result.package_updates
        text[k \in 0..Len(updates)] ==
            IF k = 0
            THEN UpdatePythonRequirement(ContentBefore, Result.python_update)
            ELSE ReSub(text[k - 1], 1, updates[k].package_name,
                       updates[k].current_version, updates[k].latest_version)
    IN  text

C27_SubstitutionsInOrder ==
    (calls > 0 /\ written # <<>>) =>
        Content = TextAfterStep[Len(Result.package_updates)]

\* a call with two package substitutions of which the second works on what
\* the first produced
C27_Witness ==
    /\ calls > 0 /\ written # <<>>
    /\ Len(Result.package_updates) = 2
    /\ TextAfterStep[1] # TextAfterStep[0]
    /\ TextAfterStep[2] # TextAfterStep[1]
    /\ Result.package_updates[2].current_version
           = Result.package_updates[1].latest_version

(***************************************************************************)
(* SpecPipeline: scan_file, update_dependencies with its result, and       *)
(* scan_file again, on one manifest, the registry answering the same       *)
(* throughout and _PYPI_CACHE kept between the two scans.                  *)
(***************************************************************************)
\* the string a line holds: what is between its first quote and the next
\* quote of the same kind
QuotedString(line) ==
    LET p == Least({i \in 1..Len(line) : line[i] \in Quotes})
        q == Least({i \in (p + 1)..Len(line) : line[i] = line[p]})
    IN  SubSeq(line, p + 1, q - 1)

\* tomllib.load of a text written as ManifestText writes it
tomllib_load(text) ==
    LET ls == Split(text, <<"\n">>)
        d == Least({k \in 1..Len(ls) :
                        ls[k] = <<"d", "e", "p", "e", "n", "d", "e", "n", "c", "i",
                                  "e", "s", " ", "=", " ", "[">>})
        rp == {k \in 1..(d - 1) :
                   StartsWith(ls[k], <<"r", "e", "q", "u", "i", "r", "e", "s", "-",
                                       "p", "y", "t", "h", "o", "n">>)}
    IN  Manifest(TRUE,
                 IF rp = {} THEN <<>> ELSE QuotedString(ls[Least(rp)]),
                 [k \in 1..(Len(ls) - 2 - d) |-> QuotedString(ls[d + k])],
                 <<>>)

\* what the registry answers for a package: 1.0.1, 2.0 or 3.0, or that it
\* does not know the package
PipelineRegistries ==
    { r \in [PackageNames -> {Found(<<"1", ".", "0", ".", "1">>),
                              Found(<<"2", ".", "0">>), Found(<<"3", ".", "0">>),
                              NotFound}] :
          r[<<"n", "p">>] = NotFound }

InitPipeline ==
    /\ IdleParse
    /\ IdleLookup
    /\ IdleEol
    /\ IdleRepo
    /\ IdlePublish
    /\ IdlePatch
    /\ IdleMain
    /\ FreshCache
    /\ layout \in Layouts
    /\ files = (PyprojectPath :> ManifestText(layout))
    /\ pyproject = tomllib_load(files[PyprojectPath])
    /\ latest_python_versions \in SupportedVersionLists \ {<<>>}
    /\ registry \in PipelineRegistries
    /\ scan_ret = NotScanned
    /\ python_update = NoPythonUpdate
    /\ package_updates = <<>>
    /\ processed = 0
    /\ analysis_results = <<>>
    /\ calls = 0
    /\ update_ret = NotUpdated
    /\ written = <<>>
    /\ files_before = files
    /\ faults = NoFaults
    /\ rescan_ret = NotScanned

\* the first call scan_file(PyprojectPath, latest_python_versions)
PipelineScan ==
    /\ scan_ret = NotScanned
    /\ \E call \in {scan_file(PyprojectPath, pyproject, latest_python_versions,
                               registry, PYPI_CACHE, registry_requests)} :
        /\ scan_ret' = call.ret
        /\ python_update' = call.python_update
        /\ package_updates' = call.package_updates
        /\ processed' = call.processed
        /\ PYPI_CACHE' = call.cache
        /\ registry_requests' = call.requests
    /\ UNCHANGED <<pyproject, latest_python_versions, registry, rescan_ret>>
    /\ UNCHANGED <<parse_vars, lookup_vars, update_vars, eol_vars, repo_vars,
                   publish_vars, patch_vars, main_vars>>

\* the call update_dependencies([result]) with the result of the scan
PipelinePatch ==
    /\ scan_ret.kind = "FileAnalysisResult"
    /\ calls = 0
    /\ \E call \in {update_dependencies(files, <<scan_ret>>, NoFaults)} :
           /\ files' = call.files
           /\ update_ret' = [kind |-> call.kind, update_results |-> call.update_results]
           /\ written' = call.written
           /\ pyproject' = tomllib_load(call.files[PyprojectPath])
    /\ analysis_results' = <<scan_ret>>
    /\ files_before' = files
    /\ calls' = 1
    /\ UNCHANGED <<layout, faults, latest_python_versions, scan_ret, python_update,
                   package_updates, processed, registry, rescan_ret>>
    /\ UNCHANGED <<parse_vars, cache_vars, lookup_vars, eol_vars, repo_vars,
                   publish_vars, patch_vars, main_vars>>

\* the second call scan_file(PyprojectPath, latest_python_versions)
PipelineRescan ==
    /\ calls = 1
    /\ rescan_ret = NotScanned
    /\ \E call \in {scan_file(PyprojectPath, pyproject, latest_python_versions,
                               registry, PYPI_CACHE, registry_requests)} :
        /\ rescan_ret' = call.ret
        /\ PYPI_CACHE' = call.cache
        /\ registry_requests' = call.requests
    /\ UNCHANGED <<scan_vars, registry>>
    /\ UNCHANGED <<parse_vars, lookup_vars, update_vars, eol_vars, repo_vars,
                   publish_vars, patch_vars, main_vars>>

NextPipeline == PipelineScan \/ PipelinePatch \/ PipelineRescan

SpecPipeline == InitPipeline /\ [][NextPipeline]_vars

(***************************************************************************)
(* C28.  Convergence: for every manifest for which update_dependencies     *)
(* reports modified = true, scanning the file again with the same registry *)
(* answers yields no update: scan, patch, scan reaches a fixpoint after    *)
(* one patch.                                                              *)
(***************************************************************************)
ReportedModified ==
    /\ update_ret.kind = "list"
    /\ update_ret.update_results[1].modified

C28_FixpointAfterOnePatch ==
    (rescan_ret # NotScanned /\ ReportedModified) => rescan_ret = ReturnsSentinel

\* C28 for the manifests with one declaration and requires-python written
\* with blanks around "=", or not written
C28_FixpointOfOneDeclaration ==
    (/\ rescan_ret # NotScanned /\ ReportedModified
     /\ Len(layout.lines) = 1
     /\ layout.requires_python # <<>> => layout.requires_python[16] = " ")
        => rescan_ret = ReturnsSentinel

====
